---- MODULE Spec2Model ----
(***************************************************************************)
(* mcp-clip: the clipboard cache (atomic.Value snapshot), the poller with  *)
(* its running flag, the overflow temp-file store with its TTL sweep, and  *)
(* the read_clipboard request handler.                                     *)
(*                                                                         *)
(* Clipboard content is a byte string written run-length encoded: a        *)
(* sequence of runs [b |-> byte, n |-> count].  File names are sequences   *)
(* of one-character strings, so that formatting and parsing of names are   *)
(* computed character by character.  Time is counted in ticks of           *)
(* 1/TicksPerSec second.                                                   *)
(***************************************************************************)
EXTENDS Integers, Sequences, FiniteSets, TLC

\* ------------------------------------------------------------------------
\* Bounds of the model
\* ------------------------------------------------------------------------
TicksPerSec == 4      \* clock resolution: ticks per unix second
MaxAdvance == 2       \* number of clock advances in one behaviour
MaxCalls == 3         \* number of updateClipboard calls in one behaviour
MaxFailures == 1      \* deletions that fail in one sweep
MaxFiles == 2         \* files the temp directory has room for
MaxOps == 2           \* saveToTempFile and sweep calls the workers make in one behaviour
StartSec == 7200      \* unix second at which a behaviour starts

\* ------------------------------------------------------------------------
\* Program constants
\* ------------------------------------------------------------------------
maxDirectOutput == 25000
SecondsPerHour == 3600
DefaultCleanupTTL == 1 * SecondsPerHour * TicksPerSec
FilenamePrefix == <<"m", "c", "p", "-", "c", "l", "i", "p", "-">>

\* ------------------------------------------------------------------------
\* Byte strings (run-length encoded)
\* ------------------------------------------------------------------------
RECURSIVE BLen(_)
BLen(c) == IF c = <<>> THEN 0 ELSE Head(c).n + BLen(Tail(c))

\* the byte at 0-based index i (i < BLen(c))
RECURSIVE ByteAt(_, _)
ByteAt(c, i) ==
    IF i < Head(c).n THEN Head(c).b ELSE ByteAt(Tail(c), i - Head(c).n)

\* data[lo:hi] as a plain sequence of bytes
Slice(c, lo, hi) == [k \in 1..(hi - lo) |-> ByteAt(c, lo + k - 1)]

RECURSIVE ByteSum(_)
ByteSum(c) == IF c = <<>> THEN 0 ELSE Head(c).b * Head(c).n + ByteSum(Tail(c))

Empty == <<>>

\* ------------------------------------------------------------------------
\* ContentClassifier
\* ------------------------------------------------------------------------
IsTextRune(r) == (r >= 32 /\ r <= 126) \/ r = 10 \/ r = 13 \/ r = 9

\* number of runes counted as text; a byte >= 0x80 never decodes to one
RECURSIVE TextChars(_)
TextChars(c) ==
    IF c = <<>> THEN 0
    ELSE (IF IsTextRune(Head(c).b) THEN Head(c).n ELSE 0) + TextChars(Tail(c))

\* float64(textChars)/float64(len(content)) > 0.8
isProbablyText(content) ==
    IF BLen(content) = 0 THEN TRUE
    ELSE 5 * TextChars(content) > 4 * BLen(content)

NoType == <<>>
PNG == <<"p", "n", "g">>
JPG == <<"j", "p", "g">>
GIF == <<"g", "i", "f">>
WEBP == <<"w", "e", "b", "p">>
BMP == <<"b", "m", "p">>
TXT == <<"t", "x", "t">>
B64 == <<"b", "6", "4">>

GIF87a == <<71, 73, 70, 56, 55, 97>>
GIF89a == <<71, 73, 70, 56, 57, 97>>
WEBPTag == <<87, 69, 66, 80>>

\* returns [isImage, imageType]
detectImageType(data) ==
    IF BLen(data) < 8 THEN [isImage |-> FALSE, imageType |-> NoType]
    ELSE IF ByteAt(data, 0) = 137 /\ ByteAt(data, 1) = 80
            /\ ByteAt(data, 2) = 78 /\ ByteAt(data, 3) = 71
         THEN [isImage |-> TRUE, imageType |-> PNG]
    ELSE IF ByteAt(data, 0) = 255 /\ ByteAt(data, 1) = 216 /\ ByteAt(data, 2) = 255
         THEN [isImage |-> TRUE, imageType |-> JPG]
    ELSE IF (BLen(data) >= 6 /\ Slice(data, 0, 6) = GIF87a)
            \/ Slice(data, 0, 6) = GIF89a
         THEN [isImage |-> TRUE, imageType |-> GIF]
    ELSE IF BLen(data) >= 12 /\ Slice(data, 8, 12) = WEBPTag
         THEN [isImage |-> TRUE, imageType |-> WEBP]
    ELSE IF ByteAt(data, 0) = 66 /\ ByteAt(data, 1) = 77
         THEN [isImage |-> TRUE, imageType |-> BMP]
    ELSE [isImage |-> FALSE, imageType |-> NoType]

\* ------------------------------------------------------------------------
\* Payloads handed to the overflow store: the raw bytes of a content, or its
\* base64 encoding (4 output characters for every 3 input bytes, padded)
\* ------------------------------------------------------------------------
Raw(c) == [enc |-> "raw", src |-> c]
Base64(c) == [enc |-> "b64", src |-> c]
NoData == [enc |-> "none", src |-> Empty]
Partial == [enc |-> "partial", src |-> Empty]

DataLen(d) ==
    IF d.enc = "b64" THEN 4 * ((BLen(d.src) + 2) \div 3)
    ELSE BLen(d.src)

\* md5.Sum, reduced to an 8-bit digest (two hex characters)
MD5Sum(d) ==
    (ByteSum(d.src) + 7 * DataLen(d) + (IF d.enc = "b64" THEN 1 ELSE 0)) % 256

HexDigits ==
    <<"0", "1", "2", "3", "4", "5", "6", "7", "8", "9", "a", "b", "c", "d", "e", "f">>
HexEncode(h) == <<HexDigits[(h \div 16) + 1], HexDigits[(h % 16) + 1]>>

\* ------------------------------------------------------------------------
\* Strings as character sequences: strings.HasPrefix, TrimPrefix, Split,
\* strconv.ParseInt(s, 10, 64), fmt's %d
\* ------------------------------------------------------------------------
DecDigits == <<"0", "1", "2", "3", "4", "5", "6", "7", "8", "9">>

RECURSIVE FormatNat(_)
FormatNat(n) ==
    IF n < 10 THEN <<DecDigits[n + 1]>>
    ELSE FormatNat(n \div 10) \o <<DecDigits[(n % 10) + 1]>>

FormatInt(n) == IF n < 0 THEN <<"-">> \o FormatNat(0 - n) ELSE FormatNat(n)

HasPrefix(s, p) == Len(s) >= Len(p) /\ SubSeq(s, 1, Len(p)) = p

TrimPrefix(s, p) == IF HasPrefix(s, p) THEN SubSeq(s, Len(p) + 1, Len(s)) ELSE s

\* strings.Split(s, sep) for a one-character separator
RECURSIVE SplitFrom(_, _, _)
SplitFrom(s, sep, acc) ==
    IF s = <<>> THEN <<acc>>
    ELSE IF Head(s) = sep THEN <<acc>> \o SplitFrom(Tail(s), sep, <<>>)
    ELSE SplitFrom(Tail(s), sep, Append(acc, Head(s)))
Split(s, sep) == SplitFrom(s, sep, <<>>)

DigitVal(ch) == CHOOSE k \in 0..9 : DecDigits[k + 1] = ch
IsDigit(ch) == \E k \in 0..9 : DecDigits[k + 1] = ch

RECURSIVE DigitsVal(_, _)
DigitsVal(s, acc) ==
    IF s = <<>> THEN acc ELSE DigitsVal(Tail(s), 10 * acc + DigitVal(Head(s)))

\* returns [ok, val]; a sign is allowed, then at least one digit, digits only
ParseInt(s) ==
    LET body == IF s # <<>> /\ Head(s) \in {"+", "-"} THEN Tail(s) ELSE s
        neg == s # <<>> /\ Head(s) = "-"
    IN  IF body = <<>> \/ \E i \in 1..Len(body) : ~IsDigit(body[i])
        THEN [ok |-> FALSE, val |-> 0]
        ELSE [ok |-> TRUE,
              val |-> IF neg THEN 0 - DigitsVal(body, 0) ELSE DigitsVal(body, 0)]

\* ------------------------------------------------------------------------
\* State
\* ------------------------------------------------------------------------
VARIABLES
    lastClipboard,  \* cs.lastClipboard: the stored clipboardState
    running,        \* cs.running
    cancelled,      \* the context handed to the poller is done
    clip,           \* the live platform clipboard
    now,            \* the clock, in ticks
    advances,       \* number of clock advances so far
    pc,             \* position of each thread
    arg,            \* updateClipboard: content
    cur,            \* updateClipboard: currentState
    fresh,          \* updateClipboard: the clipboardState under construction
    ret,            \* updateClipboard: last return value of the thread
    active,         \* the thread is inside startClipboardMonitoring's loop
    spc,            \* position of each stop() caller
    calls,          \* number of updateClipboard calls begun
    stored,         \* history: every clipboardState an update call constructed
    pre,            \* history: content stored when the thread's call began
    solo,           \* history: no other update call overlapped or followed
    got,            \* getLastClipboard: last pair each reader was returned
    files,          \* the temp directory: name -> [data, mode]
    meta,           \* history: how each name on disk (or just swept) was made
    ttlEnv,         \* MCP_CLEANUP_TTL
    req,            \* the last read_clipboard request and what it met
    resp,           \* the result of the last read_clipboard request
    sweepLog,       \* history: the last cleanupExpiredFiles call made on its own
    saves,          \* history: the last saveToTempFile call made on its own
    wk,             \* the saveToTempFile or cleanupExpiredFiles call each worker is in
    sessionFiles,   \* the tracked session files
    skipped,        \* history: the thread's last tick ended on a clipboard read error
    rejected,       \* history: the thread's last start call failed the start guard
    notes           \* number of change notifications sent to the client or console

cacheVars == <<lastClipboard, pc, arg, cur, fresh, ret, calls, stored, pre, solo, got>>
pollVars == <<running, cancelled, active, spc>>
clockVars == <<now, advances>>
fsVars == <<files, meta, ttlEnv, req, resp, sweepLog, saves>>
noteVars == <<skipped, rejected, notes>>
workVars == <<wk, sessionFiles, noteVars>>
vars == <<cacheVars, pollVars, clockVars, clip, fsVars, workVars>>

Threads == {"t1", "t2"}
Readers == {"r1"}
Stoppers == {"sig", "srv"}
Workers == {"w1", "w2"}

TextA == <<[b |-> 97, n |-> 3]>>
TextB == <<[b |-> 98, n |-> 3]>>
PollContents == {Empty, TextA, TextB}

\* clipboardState{} : the zero value NewClipboardServer stores
ZeroState == [content |-> Empty, time |-> 0]

\* ------------------------------------------------------------------------
\* ClipboardCache: updateClipboard, getLastClipboard
\* ------------------------------------------------------------------------
\* atomic.Value.Store: the whole value is replaced
StoreContentOnly(old, s) == [content |-> s.content, time |-> old.time]
StoreState(old, s) == s

\* atomic.Value.Load then the two fields of that one value
getLastClipboard(lc) == [content |-> lc.content, time |-> lc.time]

\* the comparison of updateClipboard: content != currentState
ChangedAlways(content, currentState) == TRUE
ChangedNever(content, currentState) == FALSE
ChangedUnlessEmpty(content, currentState) == content # Empty
Changed(content, currentState) == content # currentState

\* where a thread goes when its updateClipboard call returns
ReturnPoint(t) == IF active[t] THEN "select" ELSE "idle"

\* entry of updateClipboard(content): the empty check; the calls are counted
\* up to MaxCalls
EnterUpdate(t, content) ==
    /\ calls' = IF calls < MaxCalls THEN calls + 1 ELSE calls
    /\ arg' = [arg EXCEPT ![t] = content]
    /\ pre' = [pre EXCEPT ![t] = lastClipboard.content]
    /\ solo' = [u \in Threads |->
                  IF u = t THEN \A v \in Threads \ {t} : pc[v] \notin {"load", "cmp", "store"}
                  ELSE FALSE]
    /\ IF content = Empty
       THEN /\ ret' = [ret EXCEPT ![t] = "false"]
            /\ pc' = [pc EXCEPT ![t] = ReturnPoint(t)]
       ELSE /\ ret' = [ret EXCEPT ![t] = "none"]
            /\ pc' = [pc EXCEPT ![t] = "load"]

\* one of the MaxCalls calls of a behaviour
BeginUpdate(t, content) ==
    /\ calls < MaxCalls
    /\ EnterUpdate(t, content)

\* a direct call, as the tests make them
CallUpdate(t) ==
    /\ pc[t] = "idle"
    /\ ~active[t]
    /\ \E content \in PollContents : BeginUpdate(t, content)
    /\ UNCHANGED <<lastClipboard, cur, fresh, stored, got>>
    /\ UNCHANGED <<pollVars, clockVars, clip, fsVars>>
    /\ UNCHANGED workVars

\* currentState, _ := cs.getLastClipboard()
UpdLoad(t) ==
    /\ pc[t] = "load"
    /\ cur' = [cur EXCEPT ![t] = getLastClipboard(lastClipboard).content]
    /\ pc' = [pc EXCEPT ![t] = "cmp"]
    /\ UNCHANGED <<lastClipboard, arg, fresh, ret, calls, stored, pre, solo, got>>
    /\ UNCHANGED <<pollVars, clockVars, clip, fsVars>>
    /\ UNCHANGED workVars

\* if content != currentState { clipboardState{content, time.Now()} ... }
UpdCompare(t) ==
    /\ pc[t] = "cmp"
    /\ IF Changed(arg[t], cur[t])
       THEN /\ fresh' = [fresh EXCEPT ![t] = [content |-> arg[t], time |-> now]]
            /\ stored' = stored \cup {[content |-> arg[t], time |-> now]}
            /\ pc' = [pc EXCEPT ![t] = "store"]
            /\ UNCHANGED ret
       ELSE /\ ret' = [ret EXCEPT ![t] = "false"]
            /\ pc' = [pc EXCEPT ![t] = ReturnPoint(t)]
            /\ UNCHANGED <<fresh, stored>>
    /\ UNCHANGED <<lastClipboard, arg, cur, calls, pre, solo, got>>
    /\ UNCHANGED <<pollVars, clockVars, clip, fsVars>>
    /\ UNCHANGED workVars

\* cs.lastClipboard.Store(...); return true
UpdStore(t) ==
    /\ pc[t] = "store"
    /\ lastClipboard' = StoreState(lastClipboard, fresh[t])
    /\ ret' = [ret EXCEPT ![t] = "true"]
    /\ pc' = [pc EXCEPT ![t] = ReturnPoint(t)]
    /\ UNCHANGED <<arg, cur, fresh, calls, stored, pre, solo, got>>
    /\ UNCHANGED <<pollVars, clockVars, clip, fsVars>>
    /\ UNCHANGED workVars

\* a reader's getLastClipboard()
ReadCache(r) ==
    /\ got' = [got EXCEPT ![r] = getLastClipboard(lastClipboard)]
    /\ got'[r] # got[r]
    /\ UNCHANGED <<lastClipboard, pc, arg, cur, fresh, ret, calls, stored, pre, solo>>
    /\ UNCHANGED <<pollVars, clockVars, clip, fsVars>>
    /\ UNCHANGED workVars

\* the clock moves on by d ticks
Advance(d) ==
    /\ advances < MaxAdvance
    /\ advances' = advances + 1
    /\ now' = now + d
    /\ UNCHANGED <<cacheVars, pollVars, clip, fsVars>>
    /\ UNCHANGED workVars

\* the platform clipboard is set by the user
SetClipboard(c) ==
    /\ clip # c
    /\ clip' = c
    /\ UNCHANGED <<cacheVars, pollVars, clockVars, fsVars>>
    /\ UNCHANGED workVars

\* ------------------------------------------------------------------------
\* Poller: startClipboardMonitoring, stop, the shutdown goroutine of main
\* ------------------------------------------------------------------------
\* a plain store in place of the compare-and-swap
CompareAndSwapBlind(v, old, new) == [swapped |-> TRUE, value |-> new]

\* atomic.CompareAndSwapInt32(&cs.running, old, new): [swapped, value]
CompareAndSwap(v, old, new) ==
    IF v = old THEN [swapped |-> TRUE, value |-> new]
    ELSE [swapped |-> FALSE, value |-> v]

\* the start guard; on failure the call returns at once, before the deferred
\* StoreInt32 is registered
StartMonitoring(t) ==
    /\ pc[t] = "idle"
    /\ ~active[t]
    /\ LET cas == CompareAndSwap(running, 0, 1)
       IN  /\ running' = cas.value
           /\ IF cas.swapped
              THEN /\ active' = [active EXCEPT ![t] = TRUE]
                   /\ pc' = [pc EXCEPT ![t] = "select"]
                   /\ rejected' = [rejected EXCEPT ![t] = FALSE]
              ELSE /\ rejected' = [rejected EXCEPT ![t] = TRUE]
                   /\ UNCHANGED <<active, pc>>
    /\ UNCHANGED <<cancelled, spc>>
    /\ UNCHANGED <<lastClipboard, arg, cur, fresh, ret, calls, stored, pre, solo, got>>
    /\ UNCHANGED <<clockVars, clip, fsVars>>
    /\ UNCHANGED <<wk, sessionFiles, skipped, notes>>

\* the return without the deferred store
PollDoneKeepsFlag(t) ==
    /\ pc[t] = "select"
    /\ active[t]
    /\ cancelled
    /\ active' = [active EXCEPT ![t] = FALSE]
    /\ pc' = [pc EXCEPT ![t] = "idle"]
    /\ UNCHANGED <<running, cancelled, spc>>
    /\ UNCHANGED <<lastClipboard, arg, cur, fresh, ret, calls, stored, pre, solo, got>>
    /\ UNCHANGED <<clockVars, clip, fsVars>>
    /\ UNCHANGED workVars

\* case <-ctx.Done(): return, running the deferred StoreInt32(&cs.running, 0)
PollDone(t) ==
    /\ pc[t] = "select"
    /\ active[t]
    /\ cancelled
    /\ running' = 0
    /\ active' = [active EXCEPT ![t] = FALSE]
    /\ pc' = [pc EXCEPT ![t] = "idle"]
    /\ UNCHANGED <<cancelled, spc>>
    /\ UNCHANGED <<lastClipboard, arg, cur, fresh, ret, calls, stored, pre, solo, got>>
    /\ UNCHANGED <<clockVars, clip, fsVars>>
    /\ UNCHANGED workVars

\* case <-ticker.C
PollTick(t) ==
    /\ pc[t] = "select"
    /\ active[t]
    /\ pc' = [pc EXCEPT ![t] = "read"]
    /\ UNCHANGED <<lastClipboard, arg, cur, fresh, ret, calls, stored, pre, solo, got>>
    /\ UNCHANGED <<pollVars, clockVars, clip, fsVars>>
    /\ UNCHANGED workVars

\* a tick that writes what it read to the temp directory
PollReadSaving(t) ==
    /\ pc[t] = "read"
    /\ pc' = [pc EXCEPT ![t] = "select"]
    /\ files' = [n \in DOMAIN files \cup {FilenamePrefix} |->
                   IF n = FilenamePrefix THEN [data |-> Raw(clip), mode |-> "0600"]
                   ELSE files[n]]
    /\ meta' = [n \in DOMAIN files \cup {FilenamePrefix} |->
                  IF n \in DOMAIN meta THEN meta[n]
                  ELSE [pfx |-> TRUE, hasTs |-> FALSE, ts |-> 0, own |-> TRUE]]
    /\ UNCHANGED <<ttlEnv, req, resp, sweepLog, saves>>
    /\ UNCHANGED <<lastClipboard, arg, cur, fresh, ret, calls, stored, pre, solo, got>>
    /\ UNCHANGED <<pollVars, clockVars, clip>>
    /\ UNCHANGED workVars

\* if err != nil { ...; continue }: where the loop goes on a read error
ReturnOnReadError == "idle"
AfterReadError == "select"

\* content, err := readClipboard(); on error continue, else updateClipboard,
\* whose result is dropped
PollRead(t) ==
    /\ pc[t] = "read"
    /\ \E failed \in BOOLEAN :
          IF failed
          THEN /\ pc' = [pc EXCEPT ![t] = AfterReadError]
               /\ skipped' = [skipped EXCEPT ![t] = TRUE]
               /\ UNCHANGED <<arg, ret, calls, pre, solo>>
          ELSE /\ BeginUpdate(t, clip)
               /\ skipped' = [skipped EXCEPT ![t] = FALSE]
    /\ UNCHANGED <<lastClipboard, cur, fresh, stored, got>>
    /\ UNCHANGED <<pollVars, clockVars, clip, fsVars>>
    /\ UNCHANGED <<wk, sessionFiles, rejected, notes>>

\* the same tick of a poller that runs for as long as it is not cancelled
PollReadLive(t) ==
    /\ pc[t] = "read"
    /\ \E failed \in BOOLEAN :
          IF failed
          THEN /\ pc' = [pc EXCEPT ![t] = AfterReadError]
               /\ skipped' = [skipped EXCEPT ![t] = TRUE]
               /\ UNCHANGED <<arg, ret, calls, pre, solo>>
          ELSE /\ EnterUpdate(t, clip)
               /\ skipped' = [skipped EXCEPT ![t] = FALSE]
    /\ UNCHANGED <<lastClipboard, cur, fresh, stored, got>>
    /\ UNCHANGED <<pollVars, clockVars, clip, fsVars>>
    /\ UNCHANGED <<wk, sessionFiles, rejected, notes>>

\* what a stop() caller does once stop() has returned
AfterStop(s) == IF s = "sig" THEN "ctx" ELSE "done"

\* a stop() that clears the flag and goes on to cancel whatever the flag was
StopNoGuard(s) ==
    /\ spc[s] = "idle"
    /\ running' = 0
    /\ spc' = [spc EXCEPT ![s] = "cancel"]
    /\ UNCHANGED <<cancelled, active>>
    /\ UNCHANGED <<cacheVars, clockVars, clip, fsVars>>
    /\ UNCHANGED workVars

\* stop(): the CompareAndSwapInt32(&cs.running, 1, 0)
StopCAS(s) ==
    /\ spc[s] = "idle"
    /\ LET cas == CompareAndSwap(running, 1, 0)
       IN  /\ running' = cas.value
           /\ spc' = [spc EXCEPT ![s] = IF cas.swapped THEN "cancel" ELSE AfterStop(s)]
    /\ UNCHANGED <<cancelled, active>>
    /\ UNCHANGED <<cacheVars, clockVars, clip, fsVars>>
    /\ UNCHANGED workVars

\* stop(): cs.cancel()
StopCancel(s) ==
    /\ spc[s] = "cancel"
    /\ cancelled' = TRUE
    /\ spc' = [spc EXCEPT ![s] = AfterStop(s)]
    /\ UNCHANGED <<running, active>>
    /\ UNCHANGED <<cacheVars, clockVars, clip, fsVars>>
    /\ UNCHANGED workVars

\* the shutdown goroutine: cancel() after clipboardServer.stop()
SignalCancel ==
    /\ spc["sig"] = "ctx"
    /\ cancelled' = TRUE
    /\ spc' = [spc EXCEPT !["sig"] = "done"]
    /\ UNCHANGED <<running, active>>
    /\ UNCHANGED <<cacheVars, clockVars, clip, fsVars>>
    /\ UNCHANGED workVars

\* ------------------------------------------------------------------------
\* OverflowStore: getCleanupTTL, cleanupExpiredFiles, shouldRemoveFile,
\* saveToTempFile
\* ------------------------------------------------------------------------
\* time.Now().Unix(), and time.Unix(sec, 0) on the tick scale
Unix(t) == t \div TicksPerSec
TimeUnix(sec) == sec * TicksPerSec

\* MCP_CLEANUP_TTL: unset, not a duration, or a duration of d ticks
EnvUnset == [kind |-> "unset", d |-> 0]
EnvMalformed == [kind |-> "malformed", d |-> 0]
EnvDuration(d) == [kind |-> "ok", d |-> d]

\* a value that is not a duration gives no TTL at all
getCleanupTTLStrict(env) == IF env.kind = "ok" THEN env.d ELSE 0
getCleanupTTL(env) == IF env.kind = "ok" THEN env.d ELSE DefaultCleanupTTL

\* filepath.Glob(filepath.Join(tempDir, FilenamePrefix+"*"))
Glob(dir) == {f \in DOMAIN dir : HasPrefix(f, FilenamePrefix)}

\* fileTime.Before(cutoffTime)
NotAfter(fileTime, cutoffTime) == fileTime <= cutoffTime
Before(fileTime, cutoffTime) == fileTime < cutoffTime

\* what shouldRemoveFile answers for a name whose timestamp does not parse
KeepUnparsed == FALSE
RemoveUnparsed == TRUE

shouldRemoveFile(filename, cutoffTime) ==
    IF ~HasPrefix(filename, FilenamePrefix) THEN FALSE
    ELSE LET parts == Split(TrimPrefix(filename, FilenamePrefix), "-")
         IN  IF Len(parts) < 2 THEN RemoveUnparsed
             ELSE LET timestamp == ParseInt(parts[1])
                  IN  IF ~timestamp.ok THEN RemoveUnparsed
                      ELSE Before(TimeUnix(timestamp.val), cutoffTime)

\* the same parse on a name that was never matched against the prefix
shouldRemoveAnyName(filename, cutoffTime) ==
    LET parts == Split(TrimPrefix(filename, FilenamePrefix), "-")
    IN  IF Len(parts) < 2 THEN TRUE
        ELSE LET timestamp == ParseInt(parts[1])
             IN  IF ~timestamp.ok THEN TRUE
                 ELSE Before(TimeUnix(timestamp.val), cutoffTime)

ExpiredFilesAnyName(dir, t, env) ==
    {f \in DOMAIN dir : shouldRemoveAnyName(f, t - getCleanupTTL(env))}

\* the files one sweep at time t calls os.Remove on
ExpiredFiles(dir, t, env) ==
    {f \in Glob(dir) : shouldRemoveFile(f, t - getCleanupTTL(env))}

\* the os.Remove calls that may fail in one sweep
FailChoices(victims) == {x \in SUBSET victims : Cardinality(x) <= MaxFailures}

\* the directory after the sweep; a failed removal is counted and skipped
Sweep(dir, t, env, failing) ==
    [f \in (DOMAIN dir) \ (ExpiredFiles(dir, t, env) \ failing) |-> dir[f]]

SweepRecord(dir, t, env, failing) ==
    [done |-> TRUE, at |-> t, ttl |-> getCleanupTTL(env), before |-> DOMAIN dir,
     failing |-> failing]

\* a name whose timestamp and hash are joined by an underscore
TempFileNameUnderscore(timestamp, hash, extension) ==
    <<"m", "c", "p", "-", "c", "l", "i", "p", "-">> \o FormatInt(timestamp)
        \o <<"_">> \o HexEncode(hash) \o <<".">> \o extension

\* fmt.Sprintf("mcp-clip-%d-%s.%s", timestamp, hex.EncodeToString(hash[:]), extension)
TempFileName(timestamp, hash, extension) ==
    <<"m", "c", "p", "-", "c", "l", "i", "p", "-">> \o FormatInt(timestamp)
        \o <<"-">> \o HexEncode(hash) \o <<".">> \o extension

\* _, err := os.Stat(filePath); os.IsNotExist(err)
StatNotExistAlways(dir, filePath) == TRUE
StatExist(dir, filePath) == filePath \in DOMAIN dir
StatNotExist(dir, filePath) == filePath \notin DOMAIN dir

\* the permission argument of os.WriteFile
WorldReadable == "0644"
OwnerOnly == "0600"

\* os.WriteFile(filePath, data, 0600): written, not created, or created and
\* left incomplete; a full directory takes no new file
WriteOutcomes(dir) ==
    IF Cardinality(DOMAIN dir) >= MaxFiles THEN {"fail"} ELSE {"ok", "fail", "partial"}

WriteFile(dir, filePath, data, w) ==
    IF w = "fail" THEN dir
    ELSE [f \in (DOMAIN dir) \cup {filePath} |->
            IF f = filePath
            THEN [data |-> IF w = "ok" THEN data ELSE Partial, mode |-> OwnerOnly]
            ELSE dir[f]]

\* saveToTempFile(data, extension) on directory dir at time t:
\* [dir, path, failed, wrote, created]
saveToTempFile(dir, t, env, data, extension, failing, w) ==
    LET swept == Sweep(dir, t, env, failing)
        filePath == TempFileName(Unix(t), MD5Sum(data), extension)
    IN  IF StatNotExist(swept, filePath)
        THEN [dir |-> WriteFile(swept, filePath, data, w),
              path |-> IF w = "ok" THEN filePath ELSE <<>>,
              failed |-> w # "ok",
              wrote |-> TRUE,
              created |-> w # "fail"]
        ELSE [dir |-> swept, path |-> filePath, failed |-> FALSE,
              wrote |-> FALSE, created |-> FALSE]

\* how a name on disk was made
MadeHere(sec) == [pfx |-> TRUE, hasTs |-> TRUE, ts |-> sec, own |-> TRUE]

\* ------------------------------------------------------------------------
\* RequestHandler: readClipboardHandler, handleBinaryContent
\* ------------------------------------------------------------------------
NoPath == <<>>
NoSize == 0 - 1

\* mcp.NewToolResultText / mcp.NewToolResultError of a formatted message:
\* the format string, and the values it is filled with
\* err is the handler's second return value, the Go error: every return
\* statement of readClipboardHandler and handleBinaryContent gives nil
Result(isError, msg, inline, size, path, imageType) ==
    [isError |-> isError, msg |-> msg, inline |-> inline, size |-> size,
     path |-> path, imageType |-> imageType, err |-> "nil"]
TextResult(msg, inline, size, imageType) ==
    Result(FALSE, msg, inline, size, NoPath, imageType)
\* return nil, err: the failure leaves the handler as a Go error
ErrorReturn(msg) ==
    [Result(FALSE, "", NoData, NoSize, NoPath, NoType) EXCEPT !.err = msg]
\* return mcp.NewToolResultError(msg), nil
ErrorResult(msg) == Result(TRUE, msg, NoData, NoSize, NoPath, NoType)
NoResult == Result(FALSE, "", NoData, NoSize, NoPath, NoType)

\* what the handler decides before any file is touched: an immediate reply,
\* or a saveToTempFile call with the replies for its success and its failure
Reply(r) ==
    [save |-> FALSE, data |-> NoData, ext |-> NoType, onOk |-> r, onErr |-> r]
SaveThen(data, ext, onOk, onErr) ==
    [save |-> TRUE, data |-> data, ext |-> ext, onOk |-> onOk, onErr |-> onErr]

\* len(...) > maxDirectOutput
AtLeastMax(n) == n >= maxDirectOutput
TooLarge(n) == n > maxDirectOutput

handleBinaryContentRawLen(data) ==
    LET img == detectImageType(data)
        encoded == Base64(data)
    IN  IF img.isImage
        THEN SaveThen(Raw(data), img.imageType,
                 TextResult("Clipboard image content (%s, %d bytes). Saved to: %s",
                            NoData, BLen(data), img.imageType),
                 ErrorResult("Failed to save image to temp file: %v"))
        ELSE IF TooLarge(BLen(data))
        THEN SaveThen(encoded, B64,
                 TextResult("Clipboard binary content too large (%d bytes base64). Saved to: %s",
                            NoData, DataLen(encoded), NoType),
                 ErrorResult("Failed to save large binary content to temp file: %v"))
        ELSE Reply(TextResult("Clipboard binary content (base64 encoded):\n%s",
                              encoded, NoSize, NoType))

handleBinaryContent(data) ==
    LET img == detectImageType(data)
        encoded == Base64(data)
    IN  IF img.isImage
        THEN SaveThen(Raw(data), img.imageType,
                 TextResult("Clipboard image content (%s, %d bytes). Saved to: %s",
                            NoData, BLen(data), img.imageType),
                 ErrorResult("Failed to save image to temp file: %v"))
        ELSE IF TooLarge(DataLen(encoded))
        THEN SaveThen(encoded, B64,
                 TextResult("Clipboard binary content too large (%d bytes base64). Saved to: %s",
                            NoData, DataLen(encoded), NoType),
                 ErrorResult("Failed to save large binary content to temp file: %v"))
        ELSE Reply(TextResult("Clipboard binary content (base64 encoded):\n%s",
                              encoded, NoSize, NoType))

\* format := "auto"; if f := request.GetString("format", "auto"); f != "" { format = f }
FormatOf(f) == IF f # "" THEN f ELSE "auto"

\* the format switch entered without the test for empty content
HandlerPlanNoEmptyTest(f, content) ==
    IF FormatOf(f) \in {"text", "auto"}
    THEN Reply(TextResult("%s", Raw(content), NoSize, NoType))
    ELSE IF FormatOf(f) = "base64"
    THEN Reply(TextResult("Base64 encoded clipboard content:\n%s",
                          Base64(content), NoSize, NoType))
    ELSE Reply(ErrorResult("Unknown format: %s. Use 'text', 'base64', or 'auto'"))

\* the format switch with every selector taken for "text"
HandlerPlanAllText(f, content) ==
    IF content = Empty THEN Reply(TextResult("Clipboard is empty", NoData, NoSize, NoType))
    ELSE IF TooLarge(BLen(content))
    THEN SaveThen(Raw(content), TXT,
             TextResult("Clipboard text content too large (%d bytes). Saved to: %s",
                        NoData, BLen(content), NoType),
             ErrorResult("Failed to save large content to temp file: %v"))
    ELSE Reply(TextResult("%s", Raw(content), NoSize, NoType))

\* readClipboardHandler once readClipboard() has returned content without error
HandlerPlan(f, content) ==
    LET format == FormatOf(f)
        encoded == Base64(content)
    IN  IF content = Empty THEN Reply(TextResult("Clipboard is empty", NoData, NoSize, NoType))
        ELSE IF format = "text" THEN
            IF TooLarge(BLen(content))
            THEN SaveThen(Raw(content), TXT,
                     TextResult("Clipboard text content too large (%d bytes). Saved to: %s",
                                NoData, BLen(content), NoType),
                     ErrorResult("Failed to save large content to temp file: %v"))
            ELSE Reply(TextResult("%s", Raw(content), NoSize, NoType))
        ELSE IF format = "base64" THEN
            IF TooLarge(DataLen(encoded))
            THEN SaveThen(encoded, B64,
                     TextResult("Base64 encoded clipboard content too large (%d bytes). Saved to: %s",
                                NoData, DataLen(encoded), NoType),
                     ErrorResult("Failed to save large base64 content to temp file: %v"))
            ELSE Reply(TextResult("Base64 encoded clipboard content:\n%s",
                                  encoded, NoSize, NoType))
        ELSE IF format = "auto" THEN
            IF isProbablyText(content)
            THEN IF TooLarge(BLen(content))
                 THEN SaveThen(Raw(content), TXT,
                          TextResult("Clipboard text content too large (%d bytes). Saved to: %s",
                                     NoData, BLen(content), NoType),
                          ErrorResult("Failed to save large text content to temp file: %v"))
                 ELSE Reply(TextResult("Clipboard text content:\n%s",
                                       Raw(content), NoSize, NoType))
            ELSE handleBinaryContent(content)
        ELSE Reply(ErrorResult("Unknown format: %s. Use 'text', 'base64', or 'auto'"))

Formats == {"", "text", "base64", "auto", "xml"}

\* sample clipboard contents
Run(b, n) == [b |-> b, n |-> n]
Text10k == <<Run(97, 10000)>>
Text25000 == <<Run(97, 25000)>>
Text25001 == <<Run(97, 25001)>>
Text30k == <<Run(97, 30000)>>
PngMagic ==
    <<Run(137, 1), Run(80, 1), Run(78, 1), Run(71, 1),
      Run(13, 1), Run(10, 1), Run(26, 1), Run(10, 1)>>
PngSmall == PngMagic \o <<Run(0, 92)>>
BmpLikeText == <<Run(66, 1), Run(77, 1), Run(97, 98)>>
BinOne == <<Run(0, 1)>>
Bin18750 == <<Run(0, 18750)>>
Bin18751 == <<Run(0, 18751)>>
ServeContents ==
    {Empty, Text10k, Text25000, Text25001, Text30k, PngSmall, BmpLikeText, BinOne,
     Bin18750, Bin18751}

\* readClipboard(): an error, or the content of the platform clipboard
ReadOutcomes ==
    {[failed |-> TRUE, content |-> Empty]}
        \cup {[failed |-> FALSE, content |-> c] : c \in ServeContents}

\* what a save call is remembered by; again: the call before it was made
\* with the same data and extension within the same unix second
SaveRecord(prev, data, ext, sec, r) ==
    [data |-> data, ext |-> ext, sec |-> sec, path |-> r.path, failed |-> r.failed,
     wrote |-> r.wrote, created |-> r.created,
     again |-> prev.made /\ prev.data = data /\ prev.ext = ext /\ prev.sec = sec,
     prevPath |-> prev.path, prevFailed |-> prev.failed, made |-> TRUE]

\* one read_clipboard request, from readClipboard() to the result
\* the handler working on the cached content when there is one
HandlerContentCached(read, cache) ==
    IF cache.content # Empty THEN cache.content ELSE read.content
\* content, err := readClipboard(): the handler works on what the read
\* returned; cs.lastClipboard is not loaded
HandlerContent(read, cache) == read.content

\* readClipboardHandler when readClipboard() returns read
HandleRead(f, read) ==
    /\ \E content \in {HandlerContent(read, getLastClipboard(lastClipboard))} :
       \E plan \in {HandlerPlan(f, content)} :
          IF read.failed
          THEN /\ resp' = ErrorResult("Failed to read clipboard: %v")
               /\ req' = [format |-> f, content |-> Empty, readFailed |-> TRUE,
                          saved |-> FALSE, saveFailed |-> FALSE]
               /\ UNCHANGED <<files, meta>>
          ELSE IF ~plan.save
          THEN /\ resp' = plan.onOk
               /\ req' = [format |-> f, content |-> read.content, readFailed |-> FALSE,
                          saved |-> FALSE, saveFailed |-> FALSE]
               /\ UNCHANGED <<files, meta>>
          ELSE \E failing \in FailChoices(ExpiredFiles(files, now, ttlEnv)) :
               \E w \in WriteOutcomes(Sweep(files, now, ttlEnv, failing)) :
               \E r \in {saveToTempFile(files, now, ttlEnv, plan.data, plan.ext,
                                        failing, w)} :
                  /\ files' = r.dir
                  /\ meta' = [n \in DOMAIN r.dir |->
                                IF n \in DOMAIN meta THEN meta[n]
                                ELSE MadeHere(Unix(now))]
                  /\ resp' = IF r.failed THEN plan.onErr
                             ELSE [plan.onOk EXCEPT !.path = r.path]
                  /\ req' = [format |-> f, content |-> read.content,
                             readFailed |-> FALSE, saved |-> TRUE,
                             saveFailed |-> r.failed]
    /\ UNCHANGED <<ttlEnv, sweepLog, saves>>
    /\ UNCHANGED <<cacheVars, pollVars, clockVars, clip>>
    /\ UNCHANGED workVars

\* readClipboardHandler, the platform clipboard holding any of the samples
ReadClipboardHandler(f) == \E read \in ReadOutcomes : HandleRead(f, read)

\* one saveToTempFile(data, extension) call made on its own
SaveToTempFile(data, extension) ==
    /\ \E failing \in FailChoices(ExpiredFiles(files, now, ttlEnv)) :
       \E w \in WriteOutcomes(Sweep(files, now, ttlEnv, failing)) :
       \E r \in {saveToTempFile(files, now, ttlEnv, data, extension, failing, w)} :
          /\ files' = r.dir
          /\ meta' = [n \in DOMAIN r.dir |->
                        IF n \in DOMAIN meta THEN meta[n] ELSE MadeHere(Unix(now))]
          /\ saves' = SaveRecord(saves, data, extension, Unix(now), r)
    /\ UNCHANGED <<ttlEnv, req, resp, sweepLog>>
    /\ UNCHANGED <<cacheVars, pollVars, clockVars, clip>>
    /\ UNCHANGED workVars

\* one sweep on its own, as the test command runs it
CleanupExpiredFiles ==
    /\ \E failing \in FailChoices(ExpiredFiles(files, now, ttlEnv)) :
          /\ files' = Sweep(files, now, ttlEnv, failing)
          /\ sweepLog' = SweepRecord(files, now, ttlEnv, failing)
    /\ meta' = [n \in DOMAIN files |-> meta[n]]
    /\ UNCHANGED <<ttlEnv, req, resp, saves>>
    /\ UNCHANGED <<cacheVars, pollVars, clockVars, clip>>
    /\ UNCHANGED workVars

\* ------------------------------------------------------------------------
\* saveToTempFile and cleanupExpiredFiles step by step, for calls that run
\* concurrently: each worker is a request goroutine inside one call
\* ------------------------------------------------------------------------
IdleWorker ==
    [pc |-> "idle", op |-> "none", data |-> NoData, ext |-> NoType, cutoff |-> 0,
     todo |-> {}, listErr |-> FALSE, fails |-> 0, gone |-> FALSE, sec |-> 0,
     path |-> NoPath, opened |-> FALSE, unlinked |-> FALSE, wErr |-> FALSE,
     everErr |-> FALSE,
     ret |-> "none", n |-> 0]

\* a zero-length file: what O_CREATE|O_TRUNC leaves before the first write
Truncated == [enc |-> "raw", src |-> Empty]

\* the error cleanupExpiredFiles returns: only a failed listing is one
cleanupResultStrict(listErr, fails, gone) ==
    IF listErr \/ fails > 0 \/ gone THEN "error" ELSE "nil"
cleanupResult(listErr, fails, gone) == IF listErr THEN "error" ELSE "nil"

\* saveToTempFile after cleanupExpiredFiles returned err: the error is
\* logged in debug mode and the call goes on to the name and the os.Stat
AbortOnCleanupError(err) == IF err = "nil" THEN "stat" ELSE "done"
AfterCleanup(err) == "stat"

\* where a worker goes when its removal loop is over
SweepOver(r) ==
    LET err == cleanupResult(r.listErr, r.fails, r.gone)
    IN  IF r.op = "sweep" THEN [r EXCEPT !.pc = "done", !.ret = err]
        ELSE IF AfterCleanup(err) = "stat" THEN [r EXCEPT !.pc = "stat"]
        ELSE [r EXCEPT !.pc = "done", !.ret = "error"]

\* the calls the workers of ws have made
RECURSIVE OpsMade(_)
OpsMade(ws) ==
    IF ws = {} THEN 0
    ELSE LET w == CHOOSE x \in ws : TRUE IN wk[w].n + OpsMade(ws \ {w})

\* a worker enters saveToTempFile(data, extension)
BeginSave(w, data, extension) ==
    /\ wk[w].pc \in {"idle", "done"}
    /\ OpsMade(Workers) < MaxOps
    /\ wk' = [wk EXCEPT ![w] = [IdleWorker EXCEPT !.pc = "glob", !.op = "save",
                                   !.data = data, !.ext = extension,
                                   !.everErr = wk[w].everErr,
                                   !.n = wk[w].n + 1]]
    /\ UNCHANGED <<cacheVars, pollVars, clockVars, clip, fsVars, sessionFiles, noteVars>>

\* a worker enters cleanupExpiredFiles()
BeginSweep(w) ==
    /\ wk[w].pc \in {"idle", "done"}
    /\ OpsMade(Workers) < MaxOps
    /\ wk' = [wk EXCEPT ![w] = [IdleWorker EXCEPT !.pc = "glob", !.op = "sweep",
                                   !.everErr = wk[w].everErr,
                                   !.n = wk[w].n + 1]]
    /\ UNCHANGED <<cacheVars, pollVars, clockVars, clip, fsVars, sessionFiles, noteVars>>

\* ttl, cutoffTime and filepath.Glob: the names this sweep will remove, as
\* the directory lists them now; a listing that fails ends the sweep
WGlob(w) ==
    /\ wk[w].pc = "glob"
    /\ \E listing \in {"ok", "error"} :
       \E victims \in {IF listing = "ok" THEN ExpiredFiles(files, now, ttlEnv) ELSE {}} :
       \E r \in {[wk[w] EXCEPT !.cutoff = now - getCleanupTTL(ttlEnv),
                               !.todo = victims, !.listErr = (listing = "error")]} :
          wk' = [wk EXCEPT ![w] = IF victims = {} THEN SweepOver(r)
                                  ELSE [r EXCEPT !.pc = "remove"]]
    /\ UNCHANGED <<cacheVars, pollVars, clockVars, clip, fsVars, sessionFiles, noteVars>>

\* a writer that holds path open loses the name when the file is removed
Unlink(ws, f) ==
    [u \in Workers |->
        IF ws[u].pc = "write" /\ ws[u].path = f THEN [ws[u] EXCEPT !.unlinked = TRUE]
        ELSE ws[u]]

\* filepath.Glob returns the names sorted, and the loop takes them in that
\* order: bytewise comparison of the names
Alphabet ==
    <<"-", ".", "0", "1", "2", "3", "4", "5", "6", "7", "8", "9",
      "a", "b", "c", "d", "e", "f", "g", "h", "i", "j", "k", "l", "m",
      "n", "o", "p", "q", "r", "s", "t", "u", "v", "w", "x", "y", "z">>
CharCode(ch) == CHOOSE i \in 1..Len(Alphabet) : Alphabet[i] = ch

RECURSIVE LexLess(_, _)
LexLess(a, b) ==
    IF b = <<>> THEN FALSE
    ELSE IF a = <<>> THEN TRUE
    ELSE IF Head(a) = Head(b) THEN LexLess(Tail(a), Tail(b))
    ELSE CharCode(Head(a)) < CharCode(Head(b))

FirstName(names) == CHOOSE f \in names : \A g \in names \ {f} : LexLess(f, g)

\* a removal loop that gives up at the first os.Remove that fails
WRemoveAbort(w) ==
    /\ wk[w].pc = "remove"
    /\ \E f \in {FirstName(wk[w].todo)} :
       \E out \in (IF f \notin DOMAIN files THEN {"gone"}
                   ELSE IF wk[w].fails < MaxFailures THEN {"ok", "fail"} ELSE {"ok"}) :
       \E r \in {[wk[w] EXCEPT !.todo = IF out = "fail" THEN {} ELSE wk[w].todo \ {f},
                               !.fails = wk[w].fails + (IF out = "fail" THEN 1 ELSE 0),
                               !.gone = wk[w].gone \/ out = "gone"]} :
       \E ws \in {[wk EXCEPT ![w] = IF r.todo = {} THEN SweepOver(r) ELSE r]} :
          /\ wk' = IF out = "ok" THEN Unlink(ws, f) ELSE ws
          /\ files' = IF out = "ok" THEN [n \in (DOMAIN files) \ {f} |-> files[n]]
                      ELSE files
    /\ UNCHANGED <<meta, ttlEnv, req, resp, sweepLog, saves>>
    /\ UNCHANGED <<cacheVars, pollVars, clockVars, clip, sessionFiles, noteVars>>

\* one os.Remove(filePath) of the loop: removed, failed, or already gone
WRemove(w) ==
    /\ wk[w].pc = "remove"
    /\ \E f \in {FirstName(wk[w].todo)} :
       \E out \in (IF f \notin DOMAIN files THEN {"gone"}
                   ELSE IF wk[w].fails < MaxFailures THEN {"ok", "fail"} ELSE {"ok"}) :
       \E r \in {[wk[w] EXCEPT !.todo = wk[w].todo \ {f},
                               !.fails = wk[w].fails + (IF out = "fail" THEN 1 ELSE 0),
                               !.gone = wk[w].gone \/ out = "gone"]} :
       \E ws \in {[wk EXCEPT ![w] = IF r.todo = {} THEN SweepOver(r) ELSE r]} :
          /\ wk' = IF out = "ok" THEN Unlink(ws, f) ELSE ws
          /\ files' = IF out = "ok" THEN [n \in (DOMAIN files) \ {f} |-> files[n]]
                      ELSE files
    /\ UNCHANGED <<meta, ttlEnv, req, resp, sweepLog, saves>>
    /\ UNCHANGED <<cacheVars, pollVars, clockVars, clip, sessionFiles, noteVars>>

\* hash, timestamp := time.Now().Unix(), filename, then os.Stat(filePath):
\* a path that exists is returned as it is
WStat(w) ==
    /\ wk[w].pc = "stat"
    /\ \E filePath \in {TempFileName(Unix(now), MD5Sum(wk[w].data), wk[w].ext)} :
          wk' = [wk EXCEPT ![w] =
                    IF StatNotExist(files, filePath)
                    THEN [@ EXCEPT !.sec = Unix(now), !.path = filePath, !.pc = "open"]
                    ELSE [@ EXCEPT !.sec = Unix(now), !.path = filePath, !.pc = "done",
                                   !.ret = "path"]]
    /\ UNCHANGED <<cacheVars, pollVars, clockVars, clip, fsVars, sessionFiles, noteVars>>

\* os.WriteFile, first half: OpenFile(name, O_WRONLY|O_CREATE|O_TRUNC, 0600)
\* creates the file or empties the one that is there; a full directory
\* takes no new file
OpenOutcomes(dir, filePath) ==
    IF filePath \notin DOMAIN dir /\ Cardinality(DOMAIN dir) >= MaxFiles + 1
    THEN {"fail"} ELSE {"ok", "fail"}

WOpen(w) ==
    /\ wk[w].pc = "open"
    /\ \E out \in OpenOutcomes(files, wk[w].path) :
          IF out = "fail"
          THEN /\ wk' = [wk EXCEPT ![w] = [@ EXCEPT !.pc = "done", !.ret = "error",
                                                    !.wErr = TRUE,
                                                    !.everErr = TRUE]]
               /\ UNCHANGED <<files, meta>>
          ELSE /\ wk' = [wk EXCEPT ![w] = [@ EXCEPT !.pc = "write", !.opened = TRUE]]
               /\ files' = [n \in (DOMAIN files) \cup {wk[w].path} |->
                              IF n # wk[w].path THEN files[n]
                              ELSE [data |-> Truncated,
                                    mode |-> IF n \in DOMAIN files THEN files[n].mode
                                             ELSE OwnerOnly]]
               /\ meta' = [n \in (DOMAIN meta) \cup {wk[w].path} |->
                              IF n = wk[w].path /\ n \notin DOMAIN files
                              THEN MadeHere(wk[w].sec) ELSE meta[n]]
    /\ UNCHANGED <<ttlEnv, req, resp, sweepLog, saves>>
    /\ UNCHANGED <<cacheVars, pollVars, clockVars, clip, sessionFiles, noteVars>>

\* os.WriteFile, second half: Write(data) and Close; the bytes go to the
\* file that was opened, also when its name has been removed meanwhile
WWrite(w) ==
    /\ wk[w].pc = "write"
    /\ \E out \in {"ok", "partial"} :
          /\ wk' = [wk EXCEPT ![w] =
                       IF out = "ok" THEN [@ EXCEPT !.pc = "done", !.ret = "path"]
                       ELSE [@ EXCEPT !.pc = "done", !.ret = "error", !.wErr = TRUE,
                                      !.everErr = TRUE]]
          /\ files' = IF wk[w].unlinked THEN files
                      ELSE [files EXCEPT ![wk[w].path].data =
                                IF out = "ok" THEN wk[w].data ELSE Partial]
    /\ UNCHANGED <<meta, ttlEnv, req, resp, sweepLog, saves>>
    /\ UNCHANGED <<cacheVars, pollVars, clockVars, clip, sessionFiles, noteVars>>

\* ------------------------------------------------------------------------
\* SessionTracker: the tracked session files
\* ------------------------------------------------------------------------
\* cs.addSessionFile(path): the path is tracked only while the running flag
\* is set
addSessionFileAlways(flag, tracked, path) == tracked \cup {path}
addSessionFile(flag, tracked, path) ==
    IF flag = 1 THEN tracked \cup {path} ELSE tracked

AddSessionFile(path) ==
    /\ sessionFiles' = addSessionFile(running, sessionFiles, path)
    /\ UNCHANGED <<cacheVars, pollVars, clockVars, clip, fsVars, wk, noteVars>>

\* the paths handed to addSessionFile
SessionPaths ==
    {TempFileName(StartSec, h, TXT) : h \in 1..3}

\* ------------------------------------------------------------------------
\* The temp directory a process may find at start
\* ------------------------------------------------------------------------
Foreign == [pfx |-> FALSE, hasTs |-> FALSE, ts |-> 0, own |-> FALSE]
Unstamped == [pfx |-> TRUE, hasTs |-> FALSE, ts |-> 0, own |-> FALSE]
Stamped(sec) == [pfx |-> TRUE, hasTs |-> TRUE, ts |-> sec, own |-> FALSE]

HashExt == <<"-", "a", "b", ".", "p", "n", "g">>

\* x-1-a : another program's file
ForeignOld == <<"x", "-", "1", "-", "a">>
\* mcp-clip1000-ab.png : another program's file, no dash after "clip"
NearPrefix == <<"m", "c", "p", "-", "c", "l", "i", "p", "1", "0", "0", "0">> \o HashExt
\* mcp-clip-a.txt : the old naming scheme, no timestamp
Legacy == FilenamePrefix \o <<"a", ".", "t", "x", "t">>
\* mcp-clip-x1-ab.png : the timestamp field is no number
NonNumeric == FilenamePrefix \o <<"x", "1">> \o HashExt
\* mcp-clip-1000-ab.png
ValidOld == FilenamePrefix \o <<"1", "0", "0", "0">> \o HashExt
\* stamped exactly one default TTL before the start, at the start, and after it
AtBoundary == FilenamePrefix \o FormatInt(StartSec - SecondsPerHour) \o HashExt
Recent == FilenamePrefix \o FormatInt(StartSec) \o HashExt
Future == FilenamePrefix \o FormatInt(StartSec + SecondsPerHour) \o HashExt

SweepMeta ==
    (ForeignOld :> Foreign) @@ (NearPrefix :> Foreign) @@ (Legacy :> Unstamped)
    @@ (NonNumeric :> Unstamped) @@ (ValidOld :> Stamped(1000))
    @@ (AtBoundary :> Stamped(StartSec - SecondsPerHour))
    @@ (Recent :> Stamped(StartSec)) @@ (Future :> Stamped(StartSec + SecondsPerHour))

ServeMeta == (ForeignOld :> Foreign) @@ (ValidOld :> Stamped(1000))

OtherFile == [data |-> Raw(TextA), mode |-> "0644"]
DirOf(m) == [f \in DOMAIN m |-> OtherFile]

SweepEnvs ==
    {EnvUnset, EnvMalformed, EnvDuration(0), EnvDuration(0 - TicksPerSec),
     EnvDuration(1), EnvDuration(2 * DefaultCleanupTTL)}
ServeEnvs == {EnvUnset, EnvDuration(1), EnvDuration(TicksPerSec)}
RequestEnvs == {EnvUnset, EnvDuration(1)}
SweeperEnvs == {EnvUnset, EnvDuration(2 * DefaultCleanupTTL)}

NoSweep == [done |-> FALSE, at |-> 0, ttl |-> 0, before |-> {}, failing |-> {}]
NoSave ==
    [data |-> NoData, ext |-> NoType, sec |-> 0, path |-> NoPath, failed |-> FALSE,
     wrote |-> FALSE, created |-> FALSE, again |-> FALSE, prevPath |-> NoPath,
     prevFailed |-> FALSE, made |-> FALSE]
NoRequest ==
    [format |-> "", content |-> Empty, readFailed |-> FALSE, saved |-> FALSE,
     saveFailed |-> FALSE]

\* ------------------------------------------------------------------------
\* Initial states and specifications
\* ------------------------------------------------------------------------
InitAt(m, envs, secs) ==
    /\ lastClipboard = ZeroState
    /\ running = 0
    /\ cancelled = FALSE
    /\ clip = Empty
    /\ now \in {TimeUnix(sec) : sec \in secs}
    /\ advances = 0
    /\ pc = [t \in Threads |-> "idle"]
    /\ arg = [t \in Threads |-> Empty]
    /\ cur = [t \in Threads |-> Empty]
    /\ fresh = [t \in Threads |-> ZeroState]
    /\ ret = [t \in Threads |-> "none"]
    /\ active = [t \in Threads |-> FALSE]
    /\ spc = [s \in Stoppers |-> "idle"]
    /\ calls = 0
    /\ stored = {}
    /\ pre = [t \in Threads |-> Empty]
    /\ solo = [t \in Threads |-> FALSE]
    /\ got = [r \in Readers |-> ZeroState]
    /\ files = DirOf(m)
    /\ meta = m
    /\ ttlEnv \in envs
    /\ req = NoRequest
    /\ resp = NoResult
    /\ sweepLog = NoSweep
    /\ saves = NoSave
    /\ wk = [w \in Workers |-> IdleWorker]
    /\ sessionFiles = {}
    /\ skipped = [t \in Threads |-> FALSE]
    /\ rejected = [t \in Threads |-> FALSE]
    /\ notes = 0

\* a process started at the unix second StartSec
InitWith(m, envs) == InitAt(m, envs, {StartSec})

Init == InitWith(ServeMeta, RequestEnvs)
InitCache == InitWith(ServeMeta, {EnvUnset})
InitStore == InitWith(ServeMeta, ServeEnvs)
InitWriters == InitWith(ServeMeta, RequestEnvs)
InitSweep == InitWith(SweepMeta, SweepEnvs)
InitSweepers == InitWith(SweepMeta, SweeperEnvs)
InitMalformed == InitWith(ServeMeta, {EnvMalformed})

\* concurrent updateClipboard and getLastClipboard calls
NextCache ==
    \/ \E t \in Threads : CallUpdate(t)
    \/ \E t \in Threads : UpdLoad(t)
    \/ \E t \in Threads : UpdCompare(t)
    \/ \E t \in Threads : UpdStore(t)
    \/ \E r \in Readers : ReadCache(r)
    \/ Advance(1)

SpecCache == InitCache /\ [][NextCache]_vars

\* pollers, stop() callers and the shutdown goroutine
NextPoller ==
    \/ \E t \in Threads : StartMonitoring(t)
    \/ \E t \in Threads : PollDone(t)
    \/ \E t \in Threads : PollTick(t)
    \/ \E t \in Threads : PollRead(t)
    \/ \E t \in Threads : UpdLoad(t)
    \/ \E t \in Threads : UpdCompare(t)
    \/ \E t \in Threads : UpdStore(t)
    \/ \E s \in Stoppers : StopCAS(s)
    \/ \E s \in Stoppers : StopCancel(s)
    \/ SignalCancel
    \/ \E c \in PollContents : SetClipboard(c)

SpecPoller == InitCache /\ [][NextPoller]_vars

\* sweeps of a directory holding files of every kind
NextSweep ==
    \/ CleanupExpiredFiles
    \/ \E d \in {1, TicksPerSec, DefaultCleanupTTL} : Advance(d)

SpecSweep == InitSweep /\ [][NextSweep]_vars

\* saveToTempFile calls, sweeps and the clock
StoreInputs ==
    {[data |-> Raw(Text25001), ext |-> TXT], [data |-> Base64(Bin18751), ext |-> B64]}
NextStore ==
    \/ \E in \in StoreInputs : SaveToTempFile(in.data, in.ext)
    \/ \E d \in {1, TicksPerSec} : Advance(d)

SpecStore == InitStore /\ [][NextStore]_vars

\* a request served from the platform clipboard as it is at that moment
ServeLive(f) ==
    \E read \in {[failed |-> TRUE, content |-> Empty], [failed |-> FALSE, content |-> clip]} :
        HandleRead(f, read)

\* what the user puts on the clipboard while requests are served
LiveContents == {Text10k, Text25001}

\* read_clipboard requests, each with its sweep and its overflow write
Next ==
    \/ \E f \in Formats : ReadClipboardHandler(f)

Spec == Init /\ [][Next]_vars

\* saveToTempFile calls of two request goroutines, step by step, and the clock
NextWriters ==
    \/ \E w \in Workers, in \in StoreInputs : BeginSave(w, in.data, in.ext)
    \/ \E w \in Workers : WGlob(w)
    \/ \E w \in Workers : WRemove(w)
    \/ \E w \in Workers : WStat(w)
    \/ \E w \in Workers : WOpen(w)
    \/ \E w \in Workers : WWrite(w)
    \/ Advance(1)

SpecWriters == InitWriters /\ [][NextWriters]_vars

\* cleanupExpiredFiles calls of two goroutines, step by step, and the clock
NextSweepers ==
    \/ \E w \in Workers : BeginSweep(w)
    \/ \E w \in Workers : WGlob(w)
    \/ \E w \in Workers : WRemove(w)
    \/ Advance(DefaultCleanupTTL)

SpecSweepers == InitSweepers /\ [][NextSweepers]_vars

\* requests that overflow, then the shutdown: the signal goroutine of main,
\* another stop() caller, and the poller
ServeOverflow ==
    /\ spc["sig"] = "idle"
    /\ \E in \in StoreInputs : SaveToTempFile(in.data, in.ext)

NextShutdown ==
    \/ ServeOverflow
    \/ \E t \in Threads : StartMonitoring(t)
    \/ \E t \in Threads : PollDone(t)
    \/ \E s \in Stoppers : StopCAS(s)
    \/ \E s \in Stoppers : StopCancel(s)
    \/ SignalCancel

SpecShutdown == Init /\ [][NextShutdown]_vars

\* addSessionFile calls while the poller is started and stopped
NextSession ==
    \/ \E p \in SessionPaths : AddSessionFile(p)
    \/ \E t \in Threads : StartMonitoring(t)
    \/ \E t \in Threads : PollDone(t)
    \/ \E s \in Stoppers : StopCAS(s)
    \/ \E s \in Stoppers : StopCancel(s)
    \/ SignalCancel

SpecSession == InitCache /\ [][NextSession]_vars

\* read_clipboard requests served while the poller goroutine that main
\* starts sets the running flag
MainPoller == {"t1"}
NextServe ==
    \/ \E f \in Formats : ReadClipboardHandler(f)
    \/ \E t \in MainPoller : StartMonitoring(t)

SpecServe == InitCache /\ [][NextServe]_vars

\* the poller that main starts, tick by tick, with the user setting the
\* clipboard, the clock, the signal goroutine and the stop() of main
NextTicks ==
    \/ \E t \in MainPoller : StartMonitoring(t)
    \/ \E t \in MainPoller : PollDone(t)
    \/ \E t \in MainPoller : PollTick(t)
    \/ \E t \in MainPoller : PollRead(t)
    \/ \E t \in MainPoller : UpdLoad(t)
    \/ \E t \in MainPoller : UpdCompare(t)
    \/ \E t \in MainPoller : UpdStore(t)
    \/ \E s \in Stoppers : StopCAS(s)
    \/ \E s \in Stoppers : StopCancel(s)
    \/ SignalCancel
    \/ \E c \in PollContents : SetClipboard(c)
    \/ Advance(1)

SpecTicks == InitCache /\ [][NextTicks]_vars

\* the scheduler lets a goroutine that can step do so, and a select with a
\* done context ready time and again takes that case in the end
FairTicks ==
    \A t \in MainPoller :
        /\ SF_vars(PollDone(t))
        /\ WF_vars(PollRead(t))
        /\ WF_vars(UpdLoad(t))
        /\ WF_vars(UpdCompare(t))
        /\ WF_vars(UpdStore(t))

\* the same poller and stoppers with the clock left alone
NextLive ==
    \/ \E t \in MainPoller : StartMonitoring(t)
    \/ \E t \in MainPoller : PollDone(t)
    \/ \E t \in MainPoller : PollTick(t)
    \/ \E t \in MainPoller : PollRead(t)
    \/ \E t \in MainPoller : UpdLoad(t)
    \/ \E t \in MainPoller : UpdCompare(t)
    \/ \E t \in MainPoller : UpdStore(t)
    \/ \E s \in Stoppers : StopCAS(s)
    \/ \E s \in Stoppers : StopCancel(s)
    \/ SignalCancel
    \/ \E c \in PollContents : SetClipboard(c)

SpecTicksFair == InitCache /\ [][NextLive]_vars /\ FairTicks

\* a poller that ticks for as long as it runs, the stoppers and the user
NextConverge ==
    \/ \E t \in MainPoller : StartMonitoring(t)
    \/ \E t \in MainPoller : PollDone(t)
    \/ \E t \in MainPoller : PollTick(t)
    \/ \E t \in MainPoller : PollReadLive(t)
    \/ \E t \in MainPoller : UpdLoad(t)
    \/ \E t \in MainPoller : UpdCompare(t)
    \/ \E t \in MainPoller : UpdStore(t)
    \/ \E s \in Stoppers : StopCAS(s)
    \/ \E s \in Stoppers : StopCancel(s)
    \/ SignalCancel
    \/ \E c \in PollContents : SetClipboard(c)

\* the ticker fires, a goroutine that can step does so, and a clipboard
\* read that is tried time and again succeeds in the end
FairConverge ==
    \A t \in MainPoller :
        /\ WF_vars(PollTick(t))
        /\ SF_vars(PollReadLive(t) /\ ~skipped'[t])
        /\ WF_vars(UpdLoad(t))
        /\ WF_vars(UpdCompare(t))
        /\ WF_vars(UpdStore(t))

SpecConverge == InitCache /\ [][NextConverge]_vars /\ FairConverge

\* startClipboardMonitoring called by several goroutines on a stopped
\* server that nobody stops or cancels
NextStart ==
    \/ \E t \in Threads : StartMonitoring(t)
    \/ \E t \in Threads : PollTick(t)
    \/ \E t \in Threads : PollRead(t)
    \/ \E t \in Threads : UpdLoad(t)
    \/ \E t \in Threads : UpdCompare(t)
    \/ \E t \in Threads : UpdStore(t)
    \/ \E c \in PollContents : SetClipboard(c)

SpecStart == InitCache /\ [][NextStart]_vars

\* read_clipboard requests on the live clipboard beside the poller that
\* caches it
NextLiveRead ==
    \/ \E f \in Formats : ServeLive(f)
    \/ \E t \in MainPoller : StartMonitoring(t)
    \/ \E t \in MainPoller : PollTick(t)
    \/ \E t \in MainPoller : PollRead(t)
    \/ \E t \in MainPoller : UpdLoad(t)
    \/ \E t \in MainPoller : UpdCompare(t)
    \/ \E t \in MainPoller : UpdStore(t)
    \/ \E c \in LiveContents : SetClipboard(c)

SpecLiveRead == InitCache /\ [][NextLiveRead]_vars

\* the poller reading large text and an image while auto requests are
\* served
DiskContents == {Text25001, PngSmall}
NextPollDisk ==
    \/ ServeLive("auto")
    \/ \E t \in MainPoller : StartMonitoring(t)
    \/ \E t \in MainPoller : PollTick(t)
    \/ \E t \in MainPoller : PollRead(t)
    \/ \E t \in MainPoller : UpdLoad(t)
    \/ \E t \in MainPoller : UpdCompare(t)
    \/ \E t \in MainPoller : UpdStore(t)
    \/ \E c \in DiskContents : SetClipboard(c)

SpecPollDisk == InitCache /\ [][NextPollDisk]_vars

\* a buffer that starts with the PNG signature and goes on with printable text
PngText == PngMagic \o <<Run(97, 92)>>

\* the three kinds of buffer the classifier tells apart
ClassifyContents == {PngSmall, PngText, Text10k, BinOne}

\* the format selectors that mean auto: the default and the explicit one
AutoFormats == {"", "auto"}

\* read_clipboard requests with format auto on a clipboard the user changes
NextClassify ==
    \/ \E f \in AutoFormats : ServeLive(f)
    \/ \E c \in ClassifyContents : SetClipboard(c)

SpecClassify == InitCache /\ [][NextClassify]_vars

\* the unix seconds at which a process is started: one, four and nine digits
NamingSecs == {0, StartSec, 400000000}

\* the extensions saveToTempFile is called with
Extensions == {TXT, B64, PNG, JPG, GIF, WEBP, BMP}
NamingInputs == {[data |-> Raw(Text25001), ext |-> e] : e \in Extensions}
NamingEnvs == {EnvDuration(TicksPerSec)}

\* the temp directory holds one file, of another program
NamingMeta == (ForeignOld :> Foreign)

InitNaming == InitAt(NamingMeta, NamingEnvs, NamingSecs)

\* the saveToTempFile calls of a process whose overflow content is of one
\* kind: each call has the extension of the call before it
SaveSameKind(in) ==
    /\ saves.made => saves.ext = in.ext
    /\ SaveToTempFile(in.data, in.ext)

\* saveToTempFile calls, one extension in a behaviour and every extension in
\* some behaviour, sweeps and the clock
NextNaming ==
    \/ \E in \in NamingInputs : SaveSameKind(in)
    \/ CleanupExpiredFiles
    \/ Advance(TicksPerSec)

SpecNaming == InitNaming /\ [][NextNaming]_vars

\* a process started with MCP_CLEANUP_TTL set to something that is not a
\* duration: overflow writes, sweeps and the clock
NextMalformed ==
    \/ \E in \in StoreInputs : SaveToTempFile(in.data, in.ext)
    \/ CleanupExpiredFiles
    \/ Advance(TicksPerSec)

SpecMalformed == InitMalformed /\ [][NextMalformed]_vars

\* ------------------------------------------------------------------------
\* Properties
\* ------------------------------------------------------------------------

\* C1: every (content, time) pair getLastClipboard returns to a reader was
\* stored together by one updateClipboard call, or is the initial empty
\* pair; no reader gets the content of one call with the time of another.
C1_NoTornRead == \A r \in Readers : got[r] \in stored \cup {ZeroState}

\* a reader holds the pair of one call while another call, with another
\* content and another time, is about to store
C1_Witness ==
    \E r \in Readers, t \in Threads :
        /\ got[r] \in stored
        /\ pc[t] = "store"
        /\ fresh[t].content # got[r].content
        /\ fresh[t].time # got[r].time

\* a call that has returned and that no other update call overlapped
ReturnedAlone(t) == pc[t] = "idle" /\ ret[t] # "none" /\ solo[t]

\* C2: with a single writer, updateClipboard(c) returns true iff c is
\* non-empty and differs from the content stored just before the call; when
\* it returns true getLastClipboard returns c; the same content again
\* returns false.
C2_UpdateResult ==
    \A t \in Threads :
        ReturnedAlone(t) =>
            /\ (ret[t] = "true") <=> (arg[t] # Empty /\ arg[t] # pre[t])
            /\ (ret[t] = "true") => getLastClipboard(lastClipboard).content = arg[t]

\* a call alone replaced a non-empty content by another one
C2_Witness ==
    \E t \in Threads :
        /\ ReturnedAlone(t)
        /\ ret[t] = "true"
        /\ pre[t] # Empty
        /\ lastClipboard.content = arg[t]

\* the same content again, alone: false
C2_WitnessRepeat ==
    \E t \in Threads :
        ReturnedAlone(t) /\ ret[t] = "false" /\ arg[t] # Empty /\ arg[t] = pre[t]

\* C3: at most one poller loop is active (between its successful start
\* guard and its return) at any time, under every interleaving of
\* startClipboardMonitoring calls, stop() calls and context cancellation.
C3_AtMostOnePoller == Cardinality({t \in Threads : active[t]}) <= 1

\* the files on disk named for data d in second sec: the prefix, the second
\* and the digest of d, whatever the extension
FilesFor(d, sec) ==
    {n \in DOMAIN files :
        HasPrefix(n, FilenamePrefix \o FormatInt(sec) \o <<"-">>
                         \o HexEncode(MD5Sum(d)) \o <<".">>)}

SameSecondResult ==
    /\ saves.path # NoPath
    /\ saves.path = saves.prevPath
    /\ ~saves.wrote
    /\ Cardinality(FilesFor(saves.data, saves.sec)) = 1

StampedBefore == {n \in sweepLog.before : meta[n].pfx /\ meta[n].hasTs}
UnstampedBefore == {n \in sweepLog.before : meta[n].pfx /\ ~meta[n].hasTs}

C6_ForeignUntouched ==
    [][\A n \in DOMAIN files :
          ~meta[n].pfx => (n \in DOMAIN files' /\ files'[n] = files[n])]_vars

\* a sweep removed files of this program and the other programs' old files
\* are still there
C6_Witness ==
    /\ sweepLog.done
    /\ ValidOld \notin DOMAIN files
    /\ Legacy \notin DOMAIN files
    /\ ForeignOld \in DOMAIN files
    /\ NearPrefix \in DOMAIN files

Served == ~req.readFailed /\ req.content # Empty

HasSuffix(s, x) == Len(s) >= Len(x) /\ SubSeq(s, Len(s) - Len(x) + 1, Len(s)) = x

\* the reply names an overflow file with extension ext and the size n, and
\* carries no content
FileReference(ext, n) ==
    /\ ~resp.isError
    /\ resp.inline = NoData
    /\ resp.path # NoPath
    /\ HasSuffix(resp.path, <<".">> \o ext)
    /\ resp.size = n

\* content handled as text: format text, or auto and classified as text
TextCase ==
    /\ Served
    /\ \/ FormatOf(req.format) = "text"
       \/ FormatOf(req.format) = "auto" /\ isProbablyText(req.content)

\* C8 as stated: text content is returned inline iff its length is at most
\* 25,000 bytes; longer content is replaced by a file reference carrying
\* the path and the original byte size, and is not returned inline.
C8_Original ==
    TextCase =>
        /\ (resp.inline = Raw(req.content)) <=> (BLen(req.content) <= 25000)
        /\ BLen(req.content) > 25000 => FileReference(TXT, BLen(req.content))

\* C8 as amended: the same, except that when the overflow write fails the
\* reply is a tool-level error in place of the file reference; content over
\* 25,000 bytes is never inline.
C8_TextThreshold ==
    TextCase =>
        /\ (resp.inline = Raw(req.content)) <=> (BLen(req.content) <= 25000)
        /\ BLen(req.content) > 25000 =>
              IF req.saveFailed
              THEN resp.isError /\ resp.inline = NoData /\ resp.path = NoPath
              ELSE FileReference(TXT, BLen(req.content))

\* 25,001 bytes of text under auto went to a file
C8_Witness ==
    /\ TextCase
    /\ req.format = "auto"
    /\ BLen(req.content) = 25001
    /\ ~req.saveFailed
    /\ resp.path \in DOMAIN files

\* 25,000 bytes of text came back inline
C8_WitnessInline ==
    /\ TextCase
    /\ BLen(req.content) = 25000
    /\ resp.inline = Raw(req.content)

\* C9: content recognized as an image is never returned inline, for every
\* size and every format selector (text, base64, auto): a reply that is not
\* an error is a file reference with path, detected format and byte size.
C9_ImageNeverInline ==
    ( /\ Served
      /\ detectImageType(req.content).isImage
      /\ FormatOf(req.format) \in {"text", "base64", "auto"}
      /\ ~resp.isError )
        => /\ FileReference(detectImageType(req.content).imageType, BLen(req.content))
           /\ resp.imageType = detectImageType(req.content).imageType

\* binary content not recognized as an image
BinaryCase ==
    /\ Served
    /\ ~isProbablyText(req.content)
    /\ ~detectImageType(req.content).isImage

Base64Threshold ==
    /\ (resp.inline = Base64(req.content))
          <=> (DataLen(Base64(req.content)) <= 25000)
    /\ DataLen(Base64(req.content)) > 25000 =>
          FileReference(B64, DataLen(Base64(req.content)))

\* C10 as stated: non-image binary content is base64-encoded; the encoding
\* is returned inline iff its size is at most 25,000 bytes, and otherwise
\* written to an overflow file with extension b64, the reply carrying the
\* path and the size.
C10_Original ==
    (BinaryCase /\ FormatOf(req.format) \in {"text", "base64", "auto"})
        => Base64Threshold

\* C10 as amended: the same for the format selectors auto and base64 (with
\* text the raw bytes are handled as text), the size being that of the
\* encoding, and a failed overflow write giving a tool-level error.
C10_BinaryThreshold ==
    (BinaryCase /\ FormatOf(req.format) \in {"base64", "auto"}) =>
        IF req.saveFailed
        THEN /\ DataLen(Base64(req.content)) > 25000
             /\ resp.isError /\ resp.inline = NoData /\ resp.path = NoPath
        ELSE Base64Threshold

\* 18,751 zero bytes under auto: 25,004 bytes of base64, to a b64 file
C10_Witness ==
    /\ BinaryCase
    /\ FormatOf(req.format) = "auto"
    /\ BLen(req.content) = 18751
    /\ ~req.saveFailed
    /\ resp.path \in DOMAIN files
    /\ resp.size = 25004

\* 18,750 zero bytes under auto: 25,000 bytes of base64, inline
C10_WitnessInline ==
    /\ BinaryCase
    /\ FormatOf(req.format) = "auto"
    /\ BLen(req.content) = 18750
    /\ resp.inline = Base64(req.content)

\* ------------------------------------------------------------------------
\* Properties of the TTL and of the sweep's triggers
\* ------------------------------------------------------------------------

\* C11: a configured TTL that parses to a zero or negative duration makes
\* the sweep use the default TTL of one hour; the TTL a sweep uses is
\* always positive.
C11_TTLPositive ==
    sweepLog.done =>
        /\ sweepLog.ttl > 0
        /\ (ttlEnv.kind = "ok" /\ ttlEnv.d <= 0) => sweepLog.ttl = DefaultCleanupTTL

\* the files an earlier process left behind that a sweep run now would select
Orphans ==
    {n \in DOMAIN files :
        /\ meta[n].pfx
        /\ ~meta[n].own
        /\ meta[n].hasTs => TimeUnix(meta[n].ts) < now - getCleanupTTL(ttlEnv)}

\* C12: one sweep runs and completes at startup, before the first
\* read_clipboard request is served: once a request has been served, the
\* expired files an earlier process left are gone, also when no request of
\* this process has written an overflow file.
C12_StartupSweep == (req # NoRequest /\ ~req.saved) => Orphans = {}

\* ------------------------------------------------------------------------
\* Properties of concurrent saveToTempFile and cleanupExpiredFiles calls
\* ------------------------------------------------------------------------
Saving(w) == wk[w].op = "save"
Returned(w) == wk[w].pc = "done"

\* C13: in every saveToTempFile call the sweep has run to completion when
\* the name is computed and the file created, and no failure of the sweep
\* (listing error, deletion error) makes the call fail: it returns an error
\* only when its own write failed.
C13_SweepThenWrite ==
    \A w \in Workers :
        Saving(w) =>
            /\ (wk[w].pc \in {"stat", "open", "write"} \/ wk[w].path # NoPath)
                  => wk[w].todo = {}
            /\ Returned(w) =>
                  /\ (wk[w].ret = "error") <=> wk[w].wErr
                  /\ (wk[w].ret # "error") => (wk[w].ret = "path" /\ wk[w].path # NoPath)

\* a call whose sweep could not list the directory wrote its file and
\* returned the path
C13_Witness ==
    \E w \in Workers :
        /\ Saving(w) /\ Returned(w)
        /\ wk[w].listErr
        /\ wk[w].ret = "path"
        /\ wk[w].path \in DOMAIN files
        /\ files[wk[w].path].data = wk[w].data

\* the same after a deletion that failed
C13_WitnessDeletion ==
    \E w \in Workers :
        /\ Saving(w) /\ Returned(w)
        /\ wk[w].fails > 0
        /\ wk[w].ret = "path"

\* two returned calls with the same content and extension, named in the same
\* unix second
Twins ==
    /\ \A w \in Workers : Saving(w) /\ Returned(w)
    /\ \A w, u \in Workers :
          wk[w].data = wk[u].data /\ wk[w].ext = wk[u].ext /\ wk[w].sec = wk[u].sec

BothSucceeded ==
    \A w, u \in Workers :
        /\ wk[w].ret = "path"
        /\ wk[w].path = wk[u].path
        /\ wk[w].path \in DOMAIN files
        /\ files[wk[w].path].data = wk[w].data
        /\ FilesFor(wk[w].data, wk[w].sec) = {wk[w].path}

Delivered(w) ==
    /\ Saving(w) /\ Returned(w)
    /\ wk[w].ret = "path"
    /\ wk[w].path \in DOMAIN files
    /\ files[wk[w].path].data = wk[w].data

\* C15: file creation is an atomic create-if-absent: once a saveToTempFile
\* call has returned a path, no concurrent call for the same path truncates
\* or rewrites that file, so a reader of the path never finds it empty or
\* partial.
C15_NoRewrite ==
    [][\A w \in Workers :
          (Delivered(w) /\ wk[w].path \in DOMAIN files')
              => files'[wk[w].path].data = files[wk[w].path].data]_vars

\* every worker that has made a call has returned from a sweep
SweepsReturned ==
    /\ \E w \in Workers : wk[w].op = "sweep"
    /\ \A w \in Workers : wk[w].op # "none" => (wk[w].op = "sweep" /\ Returned(w))

RECURSIVE MaxCutoff(_)
MaxCutoff(ws) ==
    LET w == CHOOSE x \in ws : TRUE
    IN  IF ws \ {w} = {} THEN wk[w].cutoff
        ELSE LET m == MaxCutoff(ws \ {w}) IN IF wk[w].cutoff > m THEN wk[w].cutoff ELSE m

\* what one sweep with cutoff c leaves of the directory the process found
LeftBySingleSweep(c) ==
    {n \in DOMAIN meta :
        ~(meta[n].pfx /\ (meta[n].hasTs => TimeUnix(meta[n].ts) < c))}

SweepsAgree ==
    /\ \A w \in Workers : wk[w].op = "sweep" => wk[w].ret = "nil"
    /\ DOMAIN files = LeftBySingleSweep(MaxCutoff({w \in Workers : wk[w].op = "sweep"}))

C16_WitnessAgain ==
    \E w, u \in Workers :
        /\ w # u /\ SweepsReturned
        /\ wk[w].op = "sweep" /\ wk[u].op = "sweep"
        /\ wk[w].cutoff = wk[u].cutoff
        /\ ~wk[w].gone /\ ~wk[u].gone /\ wk[w].fails = 0 /\ wk[u].fails = 0
        /\ ~wk[w].listErr /\ ~wk[u].listErr
        /\ DOMAIN files # DOMAIN meta

\* ------------------------------------------------------------------------
\* Properties of the shutdown and of the session files
\* ------------------------------------------------------------------------
\* the signal goroutine has run stop() and cancel()
ShutdownDone == spc["sig"] = "done"

\* C17: on graceful shutdown (SIGINT/SIGTERM) every overflow file this
\* process created while it was running is deleted, whatever its age, and
\* the tracked set of session files is left empty.
C17_ShutdownDeletes ==
    ShutdownDone =>
        /\ \A n \in DOMAIN files : ~meta[n].own
        /\ sessionFiles = {}

\* C18: addSessionFile(path) adds exactly that path to the tracked set when
\* the running flag is set and leaves the set unchanged when the flag is
\* cleared; the set changes in no other way, so a file created after
\* shutdown has begun is never tracked.
C18_AddOnlyWhileRunning ==
    [][/\ \A p \in SessionPaths :
            AddSessionFile(p) =>
                sessionFiles' = (IF running = 1 THEN sessionFiles \cup {p}
                                 ELSE sessionFiles)
       /\ sessionFiles' # sessionFiles =>
            /\ running = 1
            /\ \E p \in SessionPaths :
                  p \notin sessionFiles /\ sessionFiles' = sessionFiles \cup {p}]_vars

\* a path was tracked while the flag was set; the flag is cleared now and
\* the other paths are not tracked
C18_Witness ==
    /\ running = 0
    /\ spc["sig"] # "idle"
    /\ Cardinality(sessionFiles) = 1

\* ------------------------------------------------------------------------
\* Properties of the handler's failures and of the empty clipboard
\* ------------------------------------------------------------------------
\* a step of readClipboardHandler: no other code writes the response, the
\* request record or, beside it, the temp directory
HandlerStep == req' # req \/ resp' # resp \/ files' # files
RequestFailed(r) == r.readFailed \/ r.saveFailed

\* C19: readClipboardHandler never fails abruptly: a request whose clipboard
\* read failed or whose saveToTempFile failed ends with a tool-level error
\* result and a nil Go error, and the request leaves the poller's running
\* flag, its cancellation and the cached snapshot as they were.
C19_FailureIsReported ==
    [][(HandlerStep /\ RequestFailed(req')) =>
          /\ resp'.isError
          /\ resp'.err = "nil"
          /\ resp'.path = NoPath
          /\ running' = running
          /\ cancelled' = cancelled
          /\ active' = active
          /\ lastClipboard' = lastClipboard]_vars

\* an overflow write has failed, the error result is out, and the poller is
\* still running
C19_Witness ==
    /\ req.saveFailed
    /\ resp.isError
    /\ running = 1
    /\ active["t1"]

\* C20: when the clipboard read succeeds with empty content, the handler
\* answers "Clipboard is empty" as a non-error result, whatever the format
\* selector, and the temp directory is left as it was.
C20_EmptyClipboard ==
    [][(HandlerStep /\ ~req'.readFailed /\ req'.content = Empty) =>
          /\ resp' = TextResult("Clipboard is empty", NoData, NoSize, NoType)
          /\ ~resp'.isError
          /\ ~req'.saved
          /\ files' = files]_vars

\* the empty clipboard was asked for in a format the handler does not know
C20_Witness ==
    /\ req.format = "xml"
    /\ ~req.readFailed
    /\ req.content = Empty
    /\ resp.msg = "Clipboard is empty"
    /\ ~resp.isError

\* ------------------------------------------------------------------------
\* Properties of the poller loop
\* ------------------------------------------------------------------------
\* the step of a tick whose readClipboard() returned an error
ReadErrorStep(t) == pc[t] = "read" /\ pc'[t] # "read" /\ skipped'[t]

\* C21: a clipboard read error on a poller tick is swallowed: the loop is
\* back at its select, still active, so that the following ticks run, and
\* the tick leaves the cached snapshot (content and timestamp), the running
\* flag and the cancellation as they were.
C21_ReadErrorSwallowed ==
    [][\A t \in Threads :
          ReadErrorStep(t) =>
              /\ pc'[t] = "select"
              /\ active'[t]
              /\ lastClipboard' = lastClipboard
              /\ running' = running
              /\ cancelled' = cancelled]_vars

\* the tick after a swallowed read error is reading, with an earlier
\* snapshot still in the cache
C21_Witness ==
    \E t \in Threads :
        /\ skipped[t]
        /\ pc[t] = "read"
        /\ lastClipboard # ZeroState

\* the calls that passed the start guard, and those it turned away
Started == {t \in Threads : active[t]}
Refused == {t \in Threads : rejected[t]}

\* C22: of the startClipboardMonitoring calls made on a stopped server,
\* exactly one passes the start guard and runs the loop; every other call
\* has returned without reading the clipboard and without touching the
\* cache, and the running flag of the active poller is still set.
C22_OneStartPasses ==
    (Started \cup Refused # {}) =>
        /\ Cardinality(Started) = 1
        /\ running = 1
        /\ \A t \in Refused :
              /\ ~active[t]
              /\ pc[t] = "idle"
              /\ ~skipped[t]
              /\ ret[t] = "none"
              /\ fresh[t] = ZeroState

\* one call runs the loop and has cached a snapshot, the other call was
\* turned away
C22_Witness ==
    /\ Cardinality(Started) = 1
    /\ Cardinality(Refused) = 1
    /\ lastClipboard # ZeroState

\* C23: the poller loop ends only when its context is cancelled; once the
\* context is cancelled an active loop ends in the end (under fair
\* scheduling); the step that ends it leaves the running flag at 0 and the
\* thread outside updateClipboard, and only an active poller changes the
\* cache.
C23_EndsOnCancelOnly ==
    /\ [][\A t \in Threads :
             (active[t] /\ ~active'[t]) =>
                 /\ cancelled
                 /\ running' = 0
                 /\ pc'[t] = "idle"]_vars
    /\ [][lastClipboard' # lastClipboard =>
             \E t \in Threads : active[t] /\ pc[t] = "store"]_vars
    /\ \A t \in MainPoller : (cancelled /\ active[t]) ~> ~active[t]

\* a poller that has cached a snapshot was cancelled and has returned
C23_Witness ==
    \E t \in MainPoller :
        /\ cancelled
        /\ ~active[t]
        /\ pc[t] = "idle"
        /\ running = 0
        /\ lastClipboard # ZeroState

\* ------------------------------------------------------------------------
\* Properties of the read path beside the poller
\* ------------------------------------------------------------------------
\* the result the handler gives for the content it read and the format
\* selector, the path of an overflow file left open
ResultFor(r, path) ==
    IF r.readFailed THEN ErrorResult("Failed to read clipboard: %v")
    ELSE LET plan == HandlerPlan(r.format, r.content)
         IN  IF ~plan.save THEN plan.onOk
             ELSE IF r.saveFailed THEN plan.onErr
             ELSE [plan.onOk EXCEPT !.path = path]

\* C24: the on-demand read path never consults the cache: the result of
\* readClipboardHandler is the one its format selector and the live
\* clipboard content give, whatever snapshot the cache holds, and the
\* handler leaves the cached snapshot as it was.
C24_CacheNotConsulted ==
    /\ [](resp # NoResult => resp = ResultFor(req, resp.path))
    /\ [][HandlerStep =>
             /\ lastClipboard' = lastClipboard
             /\ req'.readFailed \/ req'.content = clip]_vars

\* the cache still holds an older clipboard content while the request was
\* served the live one
C24_Witness ==
    /\ ~req.readFailed
    /\ req.content = clip
    /\ req.content # Empty
    /\ lastClipboard.content \notin {Empty, req.content}
    /\ resp = ResultFor(req, resp.path)
    /\ ~resp.isError

\* a step of the poller: a thread moves, or the cache changes
PollerStep == pc' # pc \/ lastClipboard' # lastClipboard \/ calls' # calls

\* C25: the poller triggers no disk I/O: no step of a tick, whatever the
\* size or type of the content it reads, creates, rewrites or deletes a file
\* of the temp directory; every change of the directory is made by a read
\* request that went to saveToTempFile.
C25_PollerNoDiskIO ==
    [][/\ PollerStep => files' = files
       /\ files' # files => (req'.saved /\ ~PollerStep)]_vars

\* the poller has cached 25,001 bytes of text with no request made: the
\* temp directory is as it was at start
C25_Witness ==
    /\ lastClipboard.content = Text25001
    /\ resp = NoResult
    /\ files = DirOf(ServeMeta)

\* the poller has cached an image, and the overflow file on disk was made
\* by a request
C25_WitnessImage ==
    /\ lastClipboard.content = PngSmall
    /\ req.saved
    /\ \E n \in DOMAIN files : meta[n].own

\* a poller whose last tick replaced the cached snapshot is back at its
\* select
ChangeDetected(t) == active[t] /\ pc[t] = "select" /\ ret[t] = "true"

\* C26: every clipboard change the poller detects has been followed by a
\* change notification by the time the tick is over.
C26_ChangeNotified ==
    \A t \in Threads : ChangeDetected(t) => notes > 0

\* ------------------------------------------------------------------------
\* Properties of the TTL setting, the file mode and the classifier
\* ------------------------------------------------------------------------
\* MCP_CLEANUP_TTL=1h
OneHourEnv == EnvDuration(SecondsPerHour * TicksPerSec)

CreatedHere == {n \in DOMAIN files : meta[n].own}

\* C28: every overflow file that saveToTempFile creates has mode 0600 from
\* the moment it is created, while it is empty, while it is written and
\* after, also when another call opens it again; no group or world access
\* is granted.
C28_OwnerOnlyMode ==
    \A n \in CreatedHere : files[n].mode = "0600"

\* a file this process created is on disk, still empty, while its writer
\* has not written yet; the file of another program has another mode
C28_Witness ==
    /\ \E n \in CreatedHere :
          /\ files[n].data = Truncated
          /\ files[n].mode = "0600"
          /\ \E w \in Workers : wk[w].pc = "write" /\ wk[w].path = n
    /\ \E n \in DOMAIN files \ CreatedHere : files[n].mode # "0600"

\* the buffer starts with the PNG magic bytes 89 50 4E 47
StartsWithPng(c) == BLen(c) >= 4 /\ Slice(c, 0, 4) = <<137, 80, 78, 71>>

\* a non-empty run of printable ASCII
PrintableRun(c) == c # Empty /\ \A i \in 1..Len(c) : c[i].b \in 32..126

\* C29: the classifier maps a buffer starting with the PNG magic bytes to
\* a PNG image, a run of printable ASCII to text and a 1-byte 0x00 buffer to
\* binary that is no image, and a request with format auto routes them to
\* an overflow file, inline text and inline base64.
C29_ClassifyAndRoute ==
    (Served /\ FormatOf(req.format) = "auto" /\ ~req.saveFailed) =>
        /\ StartsWithPng(req.content) =>
              /\ detectImageType(req.content) = [isImage |-> TRUE, imageType |-> PNG]
              /\ FileReference(PNG, BLen(req.content))
              /\ resp.imageType = PNG
        /\ PrintableRun(req.content) =>
              /\ isProbablyText(req.content)
              /\ BLen(req.content) <= 25000 => resp.inline = Raw(req.content)
        /\ req.content = BinOne =>
              /\ ~isProbablyText(req.content)
              /\ ~detectImageType(req.content).isImage
              /\ resp.inline = Base64(req.content)
              /\ resp.path = NoPath

\* two finished updateClipboard calls that began on the same stored content
\* with the same new non-empty content
SameChange(t, u) ==
    /\ t # u
    /\ pc[t] = "idle" /\ pc[u] = "idle"
    /\ arg[t] = arg[u] /\ arg[t] # Empty
    /\ pre[t] = pre[u] /\ pre[t] # arg[t]

\* C30: of several updateClipboard calls that run concurrently with the
\* same new non-empty content, differing from the stored one, at most one
\* returns true: one clipboard change is reported as a change once.
C30_OneTruePerChange ==
    \A t, u \in Threads :
        SameChange(t, u) => ~(ret[t] = "true" /\ ret[u] = "true")

\* C31: the timestamp of the cached snapshot never decreases: under every
\* interleaving of concurrent updateClipboard calls a snapshot published to
\* the cache carries a time not earlier than that of the one it replaces.
C31_TimeNeverDecreases ==
    [][lastClipboard'.time >= lastClipboard.time]_vars

\* the step in which a saveToTempFile call returns a path without error
ReturnsPath(w) ==
    /\ wk'[w].op = "save"
    /\ wk[w].pc # "done" /\ wk'[w].pc = "done"
    /\ wk'[w].ret = "path"

\* C32: with a positive TTL, when saveToTempFile returns a path without
\* error a file is at that path at that moment and holds exactly the data
\* passed in, under every interleaving with the sweeps and writes of other
\* requests; and no sweep removes a file younger than the TTL.
C32_ReturnedFileIntact ==
    [][getCleanupTTL(ttlEnv) > 0 =>
          /\ \A w \in Workers :
                ReturnsPath(w) =>
                    /\ wk'[w].path \in DOMAIN files'
                    /\ files'[wk'[w].path].data = wk'[w].data
          /\ \A n \in (DOMAIN files) \ (DOMAIN files') :
                meta[n].hasTs => now - TimeUnix(meta[n].ts) >= getCleanupTTL(ttlEnv)]_vars

\* the cached snapshot holds content c
CacheIs(c) == lastClipboard.content = c

\* C33: after the cancellation signal the poller stops at its next tick
\* boundary; only a read already in flight may still complete, so the cache
\* is updated at most once after the signal: once it has changed it keeps
\* that content.
C33_OneUpdateAfterSignal ==
    \A a \in PollContents : \A b \in PollContents \ {a} :
        []((cancelled /\ CacheIs(a)) => [](CacheIs(b) => []CacheIs(b)))

\* the step in which the updateClipboard call of thread t returns false: on
\* the empty check, or on the comparison
ReturnsFalse(t) ==
    /\ pc[t] \in {"read", "cmp"}
    /\ pc'[t] = ReturnPoint(t)
    /\ ret'[t] = "false"

\* C34: an updateClipboard call that returns false leaves the cached
\* snapshot as it is, timestamp included: the snapshot changes only in the
\* store of a call that returns true, whose content is not empty and differs
\* from the content the call loaded; polling an unchanged clipboard never
\* refreshes the time.
C34_FalseLeavesCache ==
    [][/\ \A t \in Threads : ReturnsFalse(t) => lastClipboard' = lastClipboard
       /\ lastClipboard' # lastClipboard =>
             \E t \in Threads :
                 /\ pc[t] = "store"
                 /\ ret'[t] = "true"
                 /\ arg[t] # Empty
                 /\ arg[t] # cur[t]
                 /\ lastClipboard'.content = arg[t]]_vars

\* the poller has read the content the cache already holds, at a later
\* time than the snapshot's, and the snapshot still carries the old time
C34_Witness ==
    \E t \in MainPoller :
        /\ active[t] /\ pc[t] = "select"
        /\ ~skipped[t]
        /\ ret[t] = "false"
        /\ arg[t] # Empty
        /\ arg[t] = lastClipboard.content
        /\ lastClipboard.time < now

\* the poller has read an empty clipboard and the cache keeps its content
C34_WitnessEmpty ==
    \E t \in MainPoller :
        /\ active[t] /\ pc[t] = "select"
        /\ ~skipped[t]
        /\ ret[t] = "false"
        /\ arg[t] = Empty
        /\ lastClipboard.content # Empty

\* a step of the removal loop of worker w's sweep
RemovalStep(w) == wk[w].op = "sweep" /\ wk[w].pc = "remove" /\ wk'[w] # wk[w]

\* C35: a deletion failure inside a sweep is skipped, not fatal and not
\* retried: each step of the loop is the one removal attempt of one listed
\* file, which leaves the list for good; after a failure the file is still
\* there, the loop goes on with the files that remain, and the sweep returns
\* success.
C35_FailureSkipped ==
    /\ [][\A w \in Workers :
            RemovalStep(w) =>
                /\ wk'[w].todo = wk[w].todo \ {FirstName(wk[w].todo)}
                /\ wk'[w].cutoff = wk[w].cutoff
                /\ wk'[w].fails > wk[w].fails =>
                      /\ files' = files
                      /\ FirstName(wk[w].todo) \in DOMAIN files'
                /\ IF wk'[w].todo # {} THEN wk'[w].pc = "remove"
                   ELSE wk'[w].pc = "done" /\ wk'[w].ret = "nil"]_vars
    /\ [](\A w \in Workers :
            (wk[w].op = "sweep" /\ Returned(w)) =>
                /\ wk[w].todo = {}
                /\ wk[w].ret = "nil" <=> ~wk[w].listErr)

\* a sweep on its own met a deletion failure, removed a file that came later
\* in the listing, and returned success; the file that failed is still there
C35_Witness ==
    \E w \in Workers :
        /\ \A u \in Workers \ {w} : wk[u].op = "none"
        /\ wk[w].op = "sweep" /\ Returned(w)
        /\ wk[w].fails > 0
        /\ wk[w].ret = "nil"
        /\ \E f \in DOMAIN files : \E g \in (DOMAIN meta) \ (DOMAIN files) :
              /\ shouldRemoveFile(f, wk[w].cutoff)
              /\ LexLess(f, g)

\* the sweep's parse of name n: the prefix is found and the field after it
\* is the number sec
ParsesTo(n, sec) ==
    /\ HasPrefix(n, FilenamePrefix)
    /\ LET parts == Split(TrimPrefix(n, FilenamePrefix), "-")
       IN  /\ Len(parts) >= 2
           /\ ParseInt(parts[1]) = [ok |-> TRUE, val |-> sec]

\* the files saveToTempFile has created that are on disk
OwnFiles == {n \in DOMAIN files : meta[n].own}

\* C36: for every file saveToTempFile creates, with any of the extensions
\* txt, b64, png, jpg, gif, webp, bmp, the sweep's filename parser finds the
\* prefix and recovers exactly the second the write embedded: the file is
\* never taken for malformed, and a sweep removes it iff that second is
\* before the cutoff.
C36_NameRoundTrip ==
    /\ \A n \in OwnFiles :
          /\ ParsesTo(n, meta[n].ts)
          /\ \A c \in {TimeUnix(meta[n].ts), TimeUnix(meta[n].ts) + 1} :
                shouldRemoveFile(n, c) <=> (TimeUnix(meta[n].ts) < c)
    /\ (sweepLog.done /\ sweepLog.failing = {}) =>
          \A n \in sweepLog.before \cap DOMAIN meta :
              meta[n].own =>
                  ((n \notin DOMAIN files)
                      <=> (TimeUnix(meta[n].ts) < sweepLog.at - sweepLog.ttl))

\* a webp file written in a nine-digit second is on disk after a sweep that
\* listed it
C36_Witness ==
    \E n \in OwnFiles :
        /\ HasSuffix(n, <<".">> \o WEBP)
        /\ meta[n].ts = 400000000
        /\ sweepLog.done
        /\ n \in sweepLog.before

\* a file written here was removed by a later sweep, one second over its TTL
C36_WitnessExpired ==
    \E n \in sweepLog.before \cap DOMAIN meta :
        /\ sweepLog.done
        /\ meta[n].own
        /\ n \notin DOMAIN files
        /\ ParsesTo(n, meta[n].ts)

\* the step in which the stop() call of s tests the running flag
StopStep(s) == spc[s] = "idle" /\ spc'[s] # "idle"

\* C37: of the stop() calls made while the running flag is set exactly one
\* performs the transition from 1 to 0, and that call invokes cancel; a
\* stop() call that finds the flag at 0, another call having won or the
\* poller not running, changes nothing and does not invoke cancel.
C37_StopOnce ==
    [][/\ \A s \in Stoppers :
             StopStep(s) =>
                 /\ cancelled' = cancelled
                 /\ \A u \in Stoppers \ {s} : spc'[u] = spc[u]
                 /\ IF running = 1
                    THEN running' = 0 /\ spc'[s] = "cancel"
                    ELSE running' = running /\ spc'[s] = AfterStop(s)
       /\ \A s \in Stoppers :
             (spc[s] = "cancel" /\ spc'[s] # "cancel") =>
                 cancelled' /\ spc'[s] = AfterStop(s)
       /\ (cancelled' /\ ~cancelled) =>
             \/ \E s \in Stoppers : spc[s] = "cancel" /\ spc'[s] # "cancel"
             \/ spc["sig"] = "ctx" /\ spc'["sig"] = "done"
       /\ (running = 1 /\ running' = 0) =>
             \/ \E s \in Stoppers : StopStep(s)
             \/ \E t \in Threads : active[t] /\ ~active'[t]]_vars

\* of two stop() calls on a running poller one has cleared the flag and is
\* about to cancel; the other found the flag at 0 and has returned
C37_Witness ==
    /\ \E t \in Threads : active[t]
    /\ running = 0
    /\ ~cancelled
    /\ spc["sig"] = "cancel"
    /\ spc["srv"] = "done"

\* the poller of main is running and its context is not cancelled
PollerRuns == \A t \in MainPoller : active[t] /\ ~cancelled

\* C38: while the poller runs uncancelled, if the live clipboard holds a
\* non-empty value v from some point on and clipboard reads succeed in the
\* end, then from some point on getLastClipboard() returns v.
C38_CacheConverges ==
    \A v \in PollContents \ {Empty} :
        <>[](PollerRuns /\ clip = v)
            => <>[](getLastClipboard(lastClipboard).content = v)

\* the cache holds the value the clipboard has now, after having held the
\* other one: the poller has followed two changes and is back at its select
C38_Witness ==
    /\ PollerRuns
    /\ clip = TextA
    /\ getLastClipboard(lastClipboard).content = TextA
    /\ \E st \in stored : st.content = TextB
    /\ \A t \in MainPoller : pc[t] = "select" /\ ret[t] = "false" /\ arg[t] = TextA

\* a request whose selector is none of text, base64, auto (the empty selector
\* stands for auto)
UnknownFormat(f) == FormatOf(f) \notin {"text", "base64", "auto"}
UnknownFormatError == ErrorResult("Unknown format: %s. Use 'text', 'base64', or 'auto'")

\* C39 as stated: a request with an unknown format selector gets the
\* "Unknown format" error whatever the clipboard holds, the empty clipboard
\* included, and creates no overflow file.
C39_Original ==
    [][(HandlerStep /\ UnknownFormat(req'.format)) =>
          /\ resp' = UnknownFormatError
          /\ ~req'.saved
          /\ files' = files]_vars

\* C39: a request with an unknown format selector creates no overflow file
\* and returns no path; it gets the "Unknown format" error when the
\* clipboard read succeeds with non-empty content, "Clipboard is empty" as a
\* non-error result when the clipboard is empty, and the read error when the
\* clipboard cannot be read.
C39_UnknownFormat ==
    [][(HandlerStep /\ UnknownFormat(req'.format)) =>
          /\ resp' = IF req'.readFailed
                     THEN ErrorResult("Failed to read clipboard: %v")
                     ELSE IF req'.content = Empty
                     THEN TextResult("Clipboard is empty", NoData, NoSize, NoType)
                     ELSE UnknownFormatError
          /\ resp'.isError = (req'.readFailed \/ req'.content # Empty)
          /\ resp'.path = NoPath
          /\ ~req'.saved
          /\ files' = files]_vars

\* a clipboard above the inline threshold was asked for in a format the
\* handler does not know: the error is returned and nothing was saved
C39_Witness ==
    /\ UnknownFormat(req.format)
    /\ ~req.readFailed
    /\ req.content = Text25001
    /\ resp = UnknownFormatError
    /\ resp.isError
    /\ ~req.saved

====
